---- MODULE Spec2Model ----
(***************************************************************************)
(* Model of the seiws client library (src/src/seiws/client.py and          *)
(* helpers.py): the SOAP service invoker _chamar_servico, the four lazily  *)
(* populated directory tables (functools.cached_property), the identifier  *)
(* resolvers, the flag / e-mail / enumeration validators and the public    *)
(* wrapper methods built on them.                                          *)
(*                                                                         *)
(* Under Spec every public call is one atomic step (the library is         *)
(* synchronous); SpecFios has two threads read one table of a constructed  *)
(* client, step by step through cached_property.__get__.                   *)
(*                                                                         *)
(* The variable "ultima" holds the most recent call:                       *)
(* its name, its arguments, the ordered trace of what it did (log records  *)
(* and transport invocations) and how it ended (return value or raised     *)
(* exception).  The remote service is the environment: each transport      *)
(* invocation either returns a value or raises a fault.                    *)
(*                                                                         *)
(* Python "assert" statements are modelled as executed, i.e. the           *)
(* interpreter runs without -O.                                            *)
(***************************************************************************)
EXTENDS Integers, Sequences, FiniteSets, TLC

VARIABLES
    pronto,         \* TRUE once a SeiClient object has been constructed
    sigla_sistema,  \* self.sigla_sistema
    chave_api,      \* self.chave_api
    sigla_unidade,  \* self.sigla_unidade
    id_unidade,     \* self.id_unidade
    cache,          \* the cached_property tables of the client object
    remoto,         \* version of the directory data held by the remote SEI
    ultima,         \* the most recent call and what it did
    fios,           \* the threads that share the client object (empty if none)
    cadeado         \* the lock of functools.cached_property, "ausente" if it has none

vars == <<pronto, sigla_sistema, chave_api, sigla_unidade, id_unidade,
          cache, remoto, ultima, fios, cadeado>>

----------------------------------------------------------------------------
(* Bounds of the model *)

\* the remote directory data changes at most this many times
MaxEpoca == 1

\* each thread reads a table at most this many times
MaxAcessos == 2

----------------------------------------------------------------------------
(* Python values returned by the transport and by the wrappers *)

PyStr(s) == [kind |-> "str", val |-> s]

PyNone == [kind |-> "none", val |-> ""]

PyInt(s) == [kind |-> "int", val |-> s]

PyBool(b) == [kind |-> "bool", val |-> IF b THEN "True" ELSE "False"]

PyList(seq) == [kind |-> "list", val |-> seq]

PyDict(f) == [kind |-> "dict", val |-> f]

\* Python's ==  between a value and a str literal: an int, None, a list or a
\* dict never equals a str
PyEqStr(v, literal) == v.kind = "str" /\ v.val = literal

\* Python truthiness of a str argument ("if sigla_pais:")
Truthy(s) == s # ""

----------------------------------------------------------------------------
(* Outcomes and exceptions *)

NoExc == [type |-> "", msg |-> <<>>]

Exc(type, msg) == [type |-> type, msg |-> msg]

Ret(v) == [kind |-> "return", val |-> v, exc |-> NoExc]

Raise(e) == [kind |-> "raise", val |-> PyNone, exc |-> e]

\* the fault raised by the transport (SOAP fault, unreachable endpoint)
Fault == Exc("Fault", <<"SOAP Error">>)

----------------------------------------------------------------------------
(* The remote service *)

Tabelas == {"unidades", "usuarios", "documentos", "paises"}

\* the remote listing operation behind each table
OperacaoDeListagem(t) ==
    CASE t = "unidades"   -> "listarUnidades"
      [] t = "usuarios"   -> "listarUsuarios"
      [] t = "documentos" -> "listarSeries"
      [] t = "paises"     -> "listarPaises"

\* the record field that keys each table
CampoChave(t) ==
    CASE t = "unidades"   -> "Sigla"
      [] t = "usuarios"   -> "Sigla"
      [] t = "documentos" -> "Nome"
      [] t = "paises"     -> "Nome"

\* the record field holding the numeric ID
CampoId(t) ==
    CASE t = "unidades"   -> "IdUnidade"
      [] t = "usuarios"   -> "IdUsuario"
      [] t = "documentos" -> "IdSerie"
      [] t = "paises"     -> "IdPais"

\* the human-readable keys the remote directories hold
Chaves(t) ==
    CASE t = "unidades"   -> <<"SFI", "FISF">>
      [] t = "usuarios"   -> <<"rsilva", "eric">>
      [] t = "documentos" -> <<"Oficio", "Despacho">>
      [] t = "paises"     -> <<"Brasil", "Chile">>

\* a key that no remote directory holds
ChaveAusente == "ZZZ"

\* opaque numeric IDs the remote hands out
Ids(t) ==
    CASE t = "unidades"   -> <<"1101", "1102", "1103", "1104", "1105", "1106", "1107", "1108", "1109", "1110">>
      [] t = "usuarios"   -> <<"2201", "2202", "2203", "2204", "2205", "2206", "2207", "2208", "2209", "2210">>
      [] t = "documentos" -> <<"3301", "3302", "3303", "3304", "3305", "3306", "3307", "3308", "3309", "3310">>
      [] t = "paises"     -> <<"4401", "4402", "4403", "4404", "4405", "4406", "4407", "4408", "4409", "4410">>

\* number of records listed before version e (version e lists 2 + e records)
Deslocamento(e) == 2 * e + (e * (e - 1)) \div 2

\* the listing the remote returns for table t while at version e; from
\* version 1 on, a key appears in more than one record
Listagem(t, e) ==
    [i \in 1..(2 + e) |->
        (CampoChave(t) :> Chaves(t)[((i - 1) % 2) + 1])
        @@ (CampoId(t) :> Ids(t)[((Deslocamento(e) + i - 1) % 10) + 1])]

\* what the mutation operations may return: the success sentinel "1" and
\* everything else a SOAP response can be decoded to
ResultadosDeMutacao ==
    {PyStr("1"), PyStr("0"), PyStr(""), PyStr("true"), PyNone, PyInt("1")}

\* what the query and generation operations may return: a structure or nothing
ResultadosDeConsulta ==
    {PyDict("IdDocumento" :> "9001"), PyNone}

OperacoesDeListagem == {OperacaoDeListagem(t) : t \in Tabelas}

TabelaDaOperacao(op) == CHOOSE t \in Tabelas : OperacaoDeListagem(t) = op

\* any invocation may end in a fault
Faltas == {Raise(Fault)}

\* what one invocation of the listing operation of table t may do at version e
OraculosDeListagem(t, e) == {Ret(PyList(Listagem(t, e)))} \cup Faltas

\* what one invocation of a mutation operation may do
OraculosDeMutacao == {Ret(v) : v \in ResultadosDeMutacao} \cup Faltas

\* what one invocation of a query operation may do
OraculosDeConsulta == {Ret(v) : v \in ResultadosDeConsulta} \cup Faltas

\* the transport is not reached
SemOraculo == {Ret(PyNone)}

----------------------------------------------------------------------------
(* Logging (self.logger) *)

\* self.logger.info(f"Chamando operação: {nome_operacao} com parâmetros: {parametros}")
LogChamando(nome_operacao, parametros) ==
    [ev |-> "log", level |-> "INFO", fmt |-> "Chamando operação: {} com parâmetros: {}",
     a1 |-> nome_operacao, a2 |-> parametros]

\* self.logger.info(f"Resposta recebida: {resposta}")
LogResposta(resposta) ==
    [ev |-> "log", level |-> "INFO", fmt |-> "Resposta recebida: {}",
     a1 |-> resposta, a2 |-> ""]

\* self.logger.error(f"Erro ao chamar a operação {nome_operacao}: {e}")
LogErro(nome_operacao, e) ==
    [ev |-> "log", level |-> "ERROR", fmt |-> "Erro ao chamar a operação {}: {}",
     a1 |-> nome_operacao, a2 |-> e]

----------------------------------------------------------------------------
(* The service invoker *)

\* the operations the WSDL of the SEI web service exposes
OperacoesDoServico ==
    {"atribuirProcesso", "anexarProcesso", "bloquearDocumento", "bloquearProcesso",
     "cancelarDisponibilizacaoBloco", "cancelarDocumento", "concluirBloco",
     "concluirControlePrazo", "concluirProcesso", "consultarBloco",
     "consultarDocumento", "consultarProcedimento", "definirMarcador",
     "desanexarProcesso", "desbloquearProcesso", "devolverBloco",
     "disponibilizarBloco", "enviarEmail", "enviarProcesso", "excluirBloco",
     "excluirDocumento", "excluirProcesso", "gerarBloco", "gerarProcedimento",
     "incluirDocumento", "incluirDocumentoBloco", "incluirProcessoBloco",
     "lancarAndamento", "listarAndamentos", "listarAndamentosMarcadores",
     "listarCargos", "listarHipotesesLegais", "listarContatos", "listarEstados",
     "listarExtensoesPermitidas", "listarMarcadoresUnidade", "listarPaises",
     "listarSeries", "listarTiposConferencia", "listarTiposProcedimento",
     "listarTiposPrioridade", "listarUnidades", "listarUsuarios", "reabrirBloco",
     "reabrirProcesso", "registrarAnotacao", "relacionarProcesso",
     "retirarDocumentoBloco", "retirarProcessoBloco",
     "removerRelacionamentoProcesso", "removerSobrestamentoProcesso",
     "sobrestarProcesso"}

\* getattr(self.cliente.service, nome_operacao) on a name the service lacks
AttributeErrorDe(nome) == Exc("AttributeError", <<"Service has no operation ", nome>>)

\* operacao(SiglaSistema=..., IdentificacaoServico=..., **kwargs) when kwargs
\* repeats one of the two explicit keywords
TypeErrorDuplicado == Exc("TypeError", <<"got multiple values for keyword argument">>)

\* a variant of the "except" branch that raises a new exception in place of
\* the one it caught
Relancar_embrulhado(trace, nome_operacao, e) ==
    [trace |-> Append(trace, LogErro(nome_operacao, e)),
     out |-> Raise(Exc("SeiError", <<"Erro ao chamar a operação ", nome_operacao>>))]

\* the "except Exception" branch: one error record, then the bare raise
Relancar(trace, nome_operacao, e) ==
    [trace |-> Append(trace, LogErro(nome_operacao, e)), out |-> Raise(e)]

\* a variant of the call that leaves the access key out
Enviado_sem_chave(self, kwargs) ==
    [SiglaSistema |-> self.sigla_sistema] @@ kwargs

\* the keyword arguments the transport operation receives
Enviado(self, kwargs) ==
    [SiglaSistema |-> self.sigla_sistema, IdentificacaoServico |-> self.chave_api]
    @@ kwargs

\* a variant of the request log that writes what the transport receives
Parametros_enviados(self, kwargs) ==
    Enviado(self, kwargs)

\* a variant of the request log that also writes the access key
Parametros_com_chave(self, kwargs) ==
    kwargs @@ [SiglaSistema |-> self.sigla_sistema, SiglaUnidade |-> self.sigla_unidade,
               IdentificacaoServico |-> self.chave_api]

\* the dict written to the request log: kwargs override the two fixed entries
Parametros(self, kwargs) ==
    kwargs @@ [SiglaSistema |-> self.sigla_sistema, SiglaUnidade |-> self.sigla_unidade]

\* a variant of the call in which the caller's keyword arguments are merged
\* over the identification fields
ChamarServico_mescla(self, nome_operacao, kwargs, o) ==
    LET req == LogChamando(nome_operacao, Parametros(self, kwargs))
    IN  IF nome_operacao \notin OperacoesDoServico
          THEN Relancar(<<req>>, nome_operacao, AttributeErrorDe(nome_operacao))
        ELSE LET call == [ev |-> "call", op |-> nome_operacao,
                          args |-> kwargs @@ Enviado(self, kwargs), out |-> o]
             IN  IF o.kind = "raise"
                   THEN Relancar(<<req, call>>, nome_operacao, o.exc)
                   ELSE [trace |-> <<req, call, LogResposta(o.val)>>,
                         out |-> Ret(o.val)]

\* SeiClient._chamar_servico; o is what the transport does if it is invoked
ChamarServico(self, nome_operacao, kwargs, o) ==
    LET req == LogChamando(nome_operacao, Parametros(self, kwargs))
    IN  IF nome_operacao \notin OperacoesDoServico
          THEN Relancar(<<req>>, nome_operacao, AttributeErrorDe(nome_operacao))
        ELSE IF DOMAIN kwargs \cap {"SiglaSistema", "IdentificacaoServico"} # {}
          THEN Relancar(<<req>>, nome_operacao, TypeErrorDuplicado)
        ELSE LET call == [ev |-> "call", op |-> nome_operacao,
                          args |-> Enviado(self, kwargs), out |-> o]
             IN  IF o.kind = "raise"
                   THEN Relancar(<<req, call>>, nome_operacao, o.exc)
                   ELSE [trace |-> <<req, call, LogResposta(o.val)>>,
                         out |-> Ret(o.val)]

----------------------------------------------------------------------------
(* The directory tables (cached_property) *)

\* a table that has not been accessed yet
Vazio == [set |-> FALSE, map |-> <<>>]

CacheInicial == [t \in Tabelas |-> Vazio]

Maximo(S) == CHOOSE x \in S : \A y \in S : y <= x

\* a variant of the comprehension in which the first record of a key stays
DictPor_primeiro(campo, lista) ==
    [k \in {lista[i][campo] : i \in DOMAIN lista} |->
        lista[CHOOSE i \in DOMAIN lista :
                 /\ lista[i][campo] = k
                 /\ \A j \in DOMAIN lista : lista[j][campo] = k => i <= j]]

\* {d[campo]: d for d in lista}: a later record replaces an earlier one
DictPor(campo, lista) ==
    [k \in {lista[i][campo] : i \in DOMAIN lista} |->
        lista[Maximo({i \in DOMAIN lista : lista[i][campo] = k})]]

\* the keyword arguments of the listing call that populates table t:
\* listar_unidades(), listar_usuarios(), listar_series(), listar_paises()
\* with their default arguments
KwargsDeListagem(self, t) ==
    CASE t = "unidades"   -> [IdTipoProcedimento |-> "", IdSerie |-> ""]
      [] t = "usuarios"   -> [IdUnidade |-> self.id_unidade, IdUsuario |-> ""]
      [] t = "documentos" -> [IdUnidade |-> "", IdTipoProcedimento |-> ""]
      [] t = "paises"     -> [IdUnidade |-> self.id_unidade]

\* a variant of the tables as plain properties: the mapping is built on every
\* first-time access but never stored
Tabela_sem_memoria(self, c, t, o) ==
    IF c[t].set
      THEN [trace |-> <<>>, out |-> Ret(PyDict(c[t].map)), cache |-> c, pop |-> <<>>]
      ELSE LET r == ChamarServico(self, OperacaoDeListagem(t), KwargsDeListagem(self, t), o)
           IN  IF r.out.kind = "raise"
                 THEN [trace |-> r.trace, out |-> r.out, cache |-> c, pop |-> <<t>>]
                 ELSE [trace |-> r.trace,
                       out |-> Ret(PyDict(DictPor(CampoChave(t), r.out.val.val))),
                       cache |-> c, pop |-> <<t>>]

\* self.unidades / self.usuarios / self.documentos / self.paises: the stored
\* mapping when there is one, otherwise one listing call whose result is
\* stored only if the call returns
\* a variant that stores an empty mapping when the listing raises
Tabela_memoriza_falha(self, c, t, o) ==
    IF c[t].set
      THEN [trace |-> <<>>, out |-> Ret(PyDict(c[t].map)), cache |-> c, pop |-> <<>>]
      ELSE LET r == ChamarServico(self, OperacaoDeListagem(t), KwargsDeListagem(self, t), o)
           IN  IF r.out.kind = "raise"
                 THEN [trace |-> r.trace, out |-> r.out,
                       cache |-> [c EXCEPT ![t] = [set |-> TRUE, map |-> <<>>]],
                       pop |-> <<t>>]
                 ELSE LET m == DictPor(CampoChave(t), r.out.val.val)
                      IN  [trace |-> r.trace, out |-> Ret(PyDict(m)),
                           cache |-> [c EXCEPT ![t] = [set |-> TRUE, map |-> m]],
                           pop |-> <<t>>]

\* a variant of the store that replaces the whole cache by the one new table
Tabela_substitui(self, c, t, o) ==
    IF c[t].set
      THEN [trace |-> <<>>, out |-> Ret(PyDict(c[t].map)), cache |-> c, pop |-> <<>>]
      ELSE LET r == ChamarServico(self, OperacaoDeListagem(t), KwargsDeListagem(self, t), o)
           IN  IF r.out.kind = "raise"
                 THEN [trace |-> r.trace, out |-> r.out, cache |-> c, pop |-> <<t>>]
                 ELSE LET m == DictPor(CampoChave(t), r.out.val.val)
                      IN  [trace |-> r.trace, out |-> Ret(PyDict(m)),
                           cache |-> [CacheInicial EXCEPT ![t] = [set |-> TRUE, map |-> m]],
                           pop |-> <<t>>]

Tabela(self, c, t, o) ==
    IF c[t].set
      THEN [trace |-> <<>>, out |-> Ret(PyDict(c[t].map)), cache |-> c, pop |-> <<>>]
      ELSE LET r == ChamarServico(self, OperacaoDeListagem(t), KwargsDeListagem(self, t), o)
           IN  IF r.out.kind = "raise"
                 THEN [trace |-> r.trace, out |-> r.out, cache |-> c, pop |-> <<t>>]
                 ELSE LET m == DictPor(CampoChave(t), r.out.val.val)
                      IN  [trace |-> r.trace, out |-> Ret(PyDict(m)),
                           cache |-> [c EXCEPT ![t] = [set |-> TRUE, map |-> m]],
                           pop |-> <<t>>]

----------------------------------------------------------------------------
(* Identifier resolution and validation *)

MensagemInvalido(t) ==
    CASE t = "unidades"   -> "Unidade inválida: "
      [] t = "usuarios"   -> "Usuário inválido: "
      [] t = "documentos" -> "Tipo de documento inválido: "
      [] t = "paises"     -> "Pais inválido: "

\* _validar_unidade, _validar_usuario, _validar_documento, _validar_pais
Validar(self, c, t, chave, o) ==
    LET r == Tabela(self, c, t, o)
    IN  IF r.out.kind = "raise" THEN r
        ELSE IF chave \notin DOMAIN r.out.val.val
          THEN [r EXCEPT !.out = Raise(Exc("ValueError", <<MensagemInvalido(t), chave>>))]
          ELSE [r EXCEPT !.out = Ret(PyStr(r.out.val.val[chave][CampoId(t)]))]

\* _validar_booleano
\* a variant of the message that also gives the value
ValidarBooleano_com_valor(atributo, valor) ==
    IF valor \notin {"S", "N"}
      THEN Raise(Exc("ValueError", <<"Valor inválido para ", atributo, ": ", valor>>))
      ELSE Ret(PyNone)

ValidarBooleano(atributo, valor) ==
    IF valor \notin {"S", "N"}
      THEN Raise(Exc("ValueError",
                 <<"Valor inválido para ", atributo, ". Valores possíveis: S - Sim, N - Não">>))
      ELSE Ret(PyNone)

----------------------------------------------------------------------------
(* Wrapper plumbing *)

\* a wrapper step that touches neither the transport nor the tables
Local(c, out) == [trace |-> <<>>, out |-> out, cache |-> c, pop |-> <<>>]

\* r1 ran first and returned; then the service call r2 ran; the wrapper
\* returns valor when r2 returned and propagates r2's exception otherwise
Seguir(r1, r2, valor) ==
    [trace |-> r1.trace \o r2.trace,
     out   |-> IF r2.out.kind = "raise" THEN r2.out ELSE Ret(valor),
     cache |-> r1.cache,
     pop   |-> r1.pop]

\* r1 ran first and returned; then the step r2 (run on r1's cache) ran
Junto(r1, r2) ==
    [trace |-> r1.trace \o r2.trace, out |-> r2.out,
     cache |-> r2.cache, pop |-> r1.pop \o r2.pop]

\* a variant of the coercion that compares the text of the result and not
\* its type:  str(chamada) == "1"
Sucesso_so_texto(chamada) == PyBool(chamada.val = "1")

\* the coercion of the mutation wrappers:  chamada == "1"
Sucesso(chamada) == PyBool(PyEqStr(chamada, "1"))

\* the client object as the methods see it
\* a client object that does not keep the unit ID of the constructor once the
\* remote directory has changed
Self_unidade_corrente ==
    [sigla_sistema |-> sigla_sistema, chave_api |-> chave_api,
     sigla_unidade |-> sigla_unidade,
     id_unidade |-> IF pronto /\ remoto > 0 THEN "" ELSE id_unidade]

Self ==
    [sigla_sistema |-> sigla_sistema, chave_api |-> chave_api,
     sigla_unidade |-> sigla_unidade, id_unidade |-> id_unidade]

\* the elements of a sequence
Elementos(seq) == {seq[i] : i \in DOMAIN seq}

\* no call is in progress and the result of the previous one was taken
Nenhuma == [name |-> "", args |-> <<>>, trace |-> <<>>, out |-> Ret(PyNone), pop |-> {}]

\* one public call on the constructed client, with result r
\* Variant in which a wrapper called with another unit acronym stores that
\* acronym as the session's unit.
Chamada_troca_unidade(nome, args, r) ==
    /\ pronto
    /\ ultima = Nenhuma
    /\ ultima' = [name |-> nome, args |-> args, trace |-> r.trace, out |-> r.out,
                  pop |-> Elementos(r.pop)]
    /\ cache' = r.cache
    /\ sigla_unidade' = IF nome = "listar_series" /\ Truthy(args.sigla_unidade)
                          THEN args.sigla_unidade ELSE sigla_unidade
    /\ UNCHANGED <<pronto, sigla_sistema, chave_api, id_unidade, remoto, fios, cadeado>>

Chamada(nome, args, r) ==
    /\ pronto
    /\ ultima = Nenhuma
    /\ ultima' = [name |-> nome, args |-> args, trace |-> r.trace, out |-> r.out,
                  pop |-> Elementos(r.pop)]
    /\ cache' = r.cache
    /\ UNCHANGED <<pronto, sigla_sistema, chave_api, sigla_unidade, id_unidade, remoto, fios, cadeado>>

\* the caller takes the result of the call and goes on
Retomar ==
    /\ ultima # Nenhuma
    /\ ultima' = Nenhuma
    /\ UNCHANGED <<pronto, sigla_sistema, chave_api, sigla_unidade, id_unidade,
                   cache, remoto, fios, cadeado>>

\* the oracles for a step that reaches the transport only to populate table t
OraculosDaTabela(t) ==
    IF cache[t].set THEN SemOraculo ELSE OraculosDeListagem(t, remoto)

----------------------------------------------------------------------------
(* Inputs *)

SiglasSistema == {"InovaFiscaliza"}

ChavesApi == {"chave-hm"}

SiglasUnidade == {"SFI", ChaveAusente}

Sinalizadores == {"S", "N", "X"}

\* an argument that was passed as None
Nenhum == "<None>"

\* zeep's xsd.SkipValue
SkipValue == "<xsd.SkipValue>"

\* the value supplied for a pass-through parameter
Valor(parametro) ==
    CASE parametro \in {"ProtocoloProcedimento", "ProtocoloProcedimentoPrincipal",
                        "ProtocoloProcedimento1", "ProtocoloProcesso"}
                                                  -> "53500.000124/2024-04"
      [] parametro \in {"ProtocoloProcedimentoAnexado", "ProtocoloProcedimento2",
                        "ProtocoloProcedimentoVinculado"}
                                                  -> "53500.201128/2014-28"
      [] parametro = "ProtocoloDocumento"         -> "0208319"
      [] parametro = "IdBloco"                    -> "3723"
      [] OTHER                                    -> "Teste"

----------------------------------------------------------------------------
(* SeiClient.__init__ *)

\* a variant of __init__ that keeps the object when the unit cannot be
\* resolved, leaving id_unidade empty
SeiClientInit_tolerante(nome, args, prefixo, ss, ch, su, o) ==
    LET self0 == [sigla_sistema |-> ss, chave_api |-> ch, sigla_unidade |-> su,
                  id_unidade |-> ""]
        r == Validar(self0, CacheInicial, "unidades", su, o)
        ok == r.out.kind = "return"
    IN  /\ pronto' = TRUE
        /\ sigla_sistema' = ss
        /\ chave_api' = ch
        /\ sigla_unidade' = su
        /\ id_unidade' = (IF ok THEN r.out.val.val ELSE "")
        /\ cache' = r.cache
        /\ ultima' = [name |-> nome, args |-> args,
                      trace |-> prefixo \o r.trace,
                      out |-> Ret(PyNone),
                      pop |-> Elementos(r.pop)]
        /\ UNCHANGED <<remoto, fios, cadeado>>

\* __init__ run by the call "nome" after the steps in "prefixo"; the object
\* exists only if __init__ returns
SeiClientInit(nome, args, prefixo, ss, ch, su, o) ==
    LET self0 == [sigla_sistema |-> ss, chave_api |-> ch, sigla_unidade |-> su,
                  id_unidade |-> ""]
        r == Validar(self0, CacheInicial, "unidades", su, o)
        ok == r.out.kind = "return"
    IN  /\ pronto' = ok
        /\ sigla_sistema' = (IF ok THEN ss ELSE "")
        /\ chave_api' = (IF ok THEN ch ELSE "")
        /\ sigla_unidade' = (IF ok THEN su ELSE "")
        /\ id_unidade' = (IF ok THEN r.out.val.val ELSE "")
        /\ cache' = (IF ok THEN r.cache ELSE CacheInicial)
        /\ ultima' = [name |-> nome, args |-> args,
                      trace |-> prefixo \o r.trace,
                      out |-> IF ok THEN Ret(PyNone) ELSE r.out,
                      pop |-> Elementos(r.pop)]
        /\ UNCHANGED <<remoto, fios, cadeado>>

Construir ==
    /\ ~pronto
    /\ ultima = Nenhuma
    /\ \E ss \in SiglasSistema, ch \in ChavesApi, su \in SiglasUnidade :
         \E o \in OraculosDeListagem("unidades", remoto) :
            SeiClientInit("SeiClient",
                          [sigla_sistema |-> ss, chave_api |-> ch, sigla_unidade |-> su],
                          <<>>, ss, ch, su, o)

----------------------------------------------------------------------------
(* The remote directory data changes *)

MudarRemoto ==
    /\ remoto < MaxEpoca
    /\ ultima = Nenhuma
    /\ remoto' = remoto + 1
    /\ UNCHANGED <<pronto, sigla_sistema, chave_api, sigla_unidade, id_unidade,
                   cache, ultima, fios, cadeado>>

----------------------------------------------------------------------------
(* Mutation wrappers that only forward their arguments and coerce the      *)
(* result with  == "1"                                                     *)

MutacoesSimples ==
    {[nome |-> "anexar_processo", op |-> "anexarProcesso",
      params |-> {"ProtocoloProcedimentoPrincipal", "ProtocoloProcedimentoAnexado"}],
     [nome |-> "bloquear_documento", op |-> "bloquearDocumento",
      params |-> {"ProtocoloDocumento"}],
     [nome |-> "bloquear_processo", op |-> "bloquearProcesso",
      params |-> {"ProtocoloProcedimento"}],
     [nome |-> "cancelar_disponibilizacao_bloco", op |-> "cancelarDisponibilizacaoBloco",
      params |-> {"IdBloco"}],
     [nome |-> "cancelar_documento", op |-> "cancelarDocumento",
      params |-> {"ProtocoloDocumento", "Motivo"}],
     [nome |-> "concluir_bloco", op |-> "concluirBloco", params |-> {"IdBloco"}],
     [nome |-> "concluir_processo", op |-> "concluirProcesso",
      params |-> {"ProtocoloProcedimento"}],
     [nome |-> "definir_marcador", op |-> "definirMarcador", params |-> {"Definicoes"}],
     [nome |-> "desanexar_processo", op |-> "desanexarProcesso",
      params |-> {"ProtocoloProcedimentoPrincipal", "ProtocoloProcedimentoAnexado", "Motivo"}],
     [nome |-> "desbloquear_processo", op |-> "desbloquearProcesso",
      params |-> {"ProtocoloProcedimento"}],
     [nome |-> "devolver_bloco", op |-> "devolverBloco", params |-> {"IdBloco"}],
     [nome |-> "disponibilizar_bloco", op |-> "disponibilizarBloco", params |-> {"IdBloco"}],
     [nome |-> "excluir_bloco", op |-> "excluirBloco", params |-> {"IdBloco"}],
     [nome |-> "excluir_documento", op |-> "excluirDocumento",
      params |-> {"ProtocoloDocumento"}],
     [nome |-> "excluir_processo", op |-> "excluirProcesso",
      params |-> {"ProtocoloProcesso"}],
     [nome |-> "incluir_documento_bloco", op |-> "incluirDocumentoBloco",
      params |-> {"IdBloco", "ProtocoloDocumento", "Anotacao"}],
     [nome |-> "incluir_processo_bloco", op |-> "incluirProcessoBloco",
      params |-> {"IdBloco", "ProtocoloProcedimento", "Anotacao"}],
     [nome |-> "reabrir_bloco", op |-> "reabrirBloco", params |-> {"IdBloco"}],
     [nome |-> "reabrir_processo", op |-> "reabrirProcesso",
      params |-> {"ProtocoloProcedimento"}],
     [nome |-> "registrar_anotacao", op |-> "registrarAnotacao", params |-> {"Anotacoes"}],
     [nome |-> "relacionar_processo", op |-> "relacionarProcesso",
      params |-> {"ProtocoloProcedimento1", "ProtocoloProcedimento2"}],
     [nome |-> "retirar_documento_bloco", op |-> "retirarDocumentoBloco",
      params |-> {"IdBloco", "ProtocoloDocumento"}],
     [nome |-> "retirar_processo_bloco", op |-> "retirarProcessoBloco",
      params |-> {"IdBloco", "ProtocoloProcedimento"}],
     [nome |-> "remover_relacionamento_processo", op |-> "removerRelacionamentoProcesso",
      params |-> {"ProtocoloProcedimento1", "ProtocoloProcedimento2"}],
     [nome |-> "remover_sobrestamento_processo", op |-> "removerSobrestamentoProcesso",
      params |-> {"ProtocoloProcedimento"}],
     [nome |-> "sobrestar_processo", op |-> "sobrestarProcesso",
      params |-> {"ProtocoloProcedimento", "ProtocoloProcedimentoVinculado", "Motivo"}]}

\* the keyword arguments of a forwarding wrapper: the session's unit ID and
\* the caller's arguments under their wire names
KwargsSimples(self, a) == [IdUnidade |-> self.id_unidade] @@ a

mutacao_simples(self, c, w, a, o) ==
    LET r == ChamarServico(self, w.op, KwargsSimples(self, a), o)
    IN  Seguir(Local(c, Ret(PyNone)), r, Sucesso(r.out.val))

MutacaoSimples ==
    \E w \in MutacoesSimples, o \in OraculosDeMutacao :
        LET a == [p \in w.params |-> Valor(p)]
        IN  Chamada(w.nome, a, mutacao_simples(Self, cache, w, a, o))

----------------------------------------------------------------------------
(* Query wrappers that only forward their arguments and return the raw     *)
(* result                                                                  *)

ConsultasSimples ==
    {[nome |-> "concluir_controle_prazo", op |-> "concluirControlePrazo",
      params |-> {"ProtocolosProcedimentos"}],
     [nome |-> "incluir_documento", op |-> "incluirDocumento", params |-> {"Documento"}],
     [nome |-> "listar_andamentos_marcadores", op |-> "listarAndamentosMarcadores",
      params |-> {"ProtocoloProcedimento", "Marcadores"}],
     [nome |-> "listar_cargos", op |-> "listarCargos", params |-> {"IdCargo"}],
     [nome |-> "listar_marcadores_unidade", op |-> "listarMarcadoresUnidade", params |-> {}],
     [nome |-> "listar_paises", op |-> "listarPaises", params |-> {}],
     [nome |-> "listar_tipos_conferencia", op |-> "listarTiposConferencia", params |-> {}],
     [nome |-> "listar_tipos_prioridade", op |-> "listarTiposPrioridade", params |-> {}],
     [nome |-> "listar_usuarios", op |-> "listarUsuarios", params |-> {"IdUsuario"}]}

\* what one invocation of operation op may do
OraculosDe(op) ==
    IF op \in OperacoesDeListagem
      THEN OraculosDeListagem(TabelaDaOperacao(op), remoto)
      ELSE OraculosDeConsulta

consulta_simples(self, c, w, a, o) ==
    LET r == ChamarServico(self, w.op, KwargsSimples(self, a), o)
    IN  Seguir(Local(c, Ret(PyNone)), r, r.out.val)

ConsultaSimples ==
    \E w \in ConsultasSimples :
      \E o \in OraculosDe(w.op) :
        LET a == [p \in w.params |-> IF p \in {"Marcadores", "IdCargo", "IdUsuario"}
                                       THEN "" ELSE Valor(p)]
        IN  Chamada(w.nome, a, consulta_simples(Self, cache, w, a, o))

----------------------------------------------------------------------------
(* Wrappers with flags *)

\* the inline check
\*   for key, value in locals().items():
\*       if key.startswith(prefixo): assert value in ["S", "N"], ...
\* ordem lists the checked parameters in declaration order
ValidarSinalizadores(ordem, flags) ==
    LET ruins == {i \in DOMAIN ordem : flags[ordem[i]] \notin {"S", "N"}}
    IN  IF ruins = {} THEN Ret(PyNone)
        ELSE LET i == CHOOSE x \in ruins : \A y \in ruins : x <= y
             IN  Raise(Exc("AssertionError",
                       <<"Valor inválido para ", ordem[i], ": ", flags[ordem[i]]>>))

\* the flag arguments a caller supplies: the defaults, the defaults with one
\* flag set to a value that is neither "S" nor "N", and every flag inverted
Variantes(padrao) ==
    {padrao}
    \cup {[padrao EXCEPT ![n] = "X"] : n \in DOMAIN padrao}
    \cup {[n \in DOMAIN padrao |-> IF padrao[n] = "S" THEN "N" ELSE "S"]}

\* a variant that validates sin_reabrir before it resolves the login
atribuir_processo_valida_antes(self, c, a, o1, o2) ==
    LET v == ValidarBooleano("sin_reabrir", a.flags.sin_reabrir)
    IN  IF v.kind = "raise" THEN Local(c, v)
        ELSE LET r1 == Validar(self, c, "usuarios", a.sigla_usuario, o1)
             IN  IF r1.out.kind = "raise" THEN r1
                 ELSE LET r2 == ChamarServico(self, "atribuirProcesso",
                                    [IdUnidade |-> self.id_unidade,
                                     ProtocoloProcedimento |-> a.protocolo_procedimento,
                                     IdUsuario |-> r1.out.val.val,
                                     SinReabrir |-> a.flags.sin_reabrir], o2)
                      IN  Seguir(r1, r2, Sucesso(r2.out.val))

\* a variant that dispatches atribuirProcesso before it validates sin_reabrir
atribuir_processo_despacha_antes(self, c, a, o1, o2) ==
    LET r1 == Validar(self, c, "usuarios", a.sigla_usuario, o1)
    IN  IF r1.out.kind = "raise" THEN r1
        ELSE LET r2 == ChamarServico(self, "atribuirProcesso",
                           [IdUnidade |-> self.id_unidade,
                            ProtocoloProcedimento |-> a.protocolo_procedimento,
                            IdUsuario |-> r1.out.val.val,
                            SinReabrir |-> a.flags.sin_reabrir], o2)
                 v == ValidarBooleano("sin_reabrir", a.flags.sin_reabrir)
             IN  IF v.kind = "raise"
                   THEN [trace |-> r1.trace \o r2.trace, out |-> v,
                         cache |-> r1.cache, pop |-> r1.pop]
                   ELSE Seguir(r1, r2, Sucesso(r2.out.val))

atribuir_processo(self, c, a, o1, o2) ==
    LET r1 == Validar(self, c, "usuarios", a.sigla_usuario, o1)
    IN  IF r1.out.kind = "raise" THEN r1
        ELSE LET v == ValidarBooleano("sin_reabrir", a.flags.sin_reabrir)
             IN  IF v.kind = "raise" THEN [r1 EXCEPT !.out = v]
                 ELSE LET r2 == ChamarServico(self, "atribuirProcesso",
                                    [IdUnidade |-> self.id_unidade,
                                     ProtocoloProcedimento |-> a.protocolo_procedimento,
                                     IdUsuario |-> r1.out.val.val,
                                     SinReabrir |-> a.flags.sin_reabrir], o2)
                      IN  Seguir(r1, r2, Sucesso(r2.out.val))

AtribuirProcesso ==
    \E su \in {"rsilva", "eric", ChaveAusente}, f \in Sinalizadores :
      \E o1 \in OraculosDaTabela("usuarios"), o2 \in OraculosDeMutacao :
        LET a == [protocolo_procedimento |-> Valor("ProtocoloProcedimento"),
                  sigla_usuario |-> su, flags |-> [sin_reabrir |-> f]]
        IN  Chamada("atribuir_processo", a, atribuir_processo(Self, cache, a, o1, o2))

\* the result of the service call is dropped: the method has no return
consultar_bloco(self, c, a, o) ==
    LET r == ChamarServico(self, "consultarBloco",
                 [IdUnidade |-> self.id_unidade,
                  IdBloco |-> a.id_bloco,
                  SinRetornarProtocolos |-> a.flags.sin_retornar_protocolos], o)
    IN  Seguir(Local(c, Ret(PyNone)), r, PyNone)

ConsultarBloco ==
    \E f \in Sinalizadores, o \in OraculosDeConsulta :
        LET a == [id_bloco |-> Valor("IdBloco"), flags |-> [sin_retornar_protocolos |-> f]]
        IN  Chamada("consultar_bloco", a, consultar_bloco(Self, cache, a, o))

OrdemConsultarDocumento ==
    <<"sin_retornar_andamento_geracao", "sin_retornar_assinaturas",
      "sin_retornar_publicacao", "sin_retornar_campos", "sin_retornar_blocos">>

PadraoConsultarDocumento ==
    [sin_retornar_andamento_geracao |-> "N", sin_retornar_assinaturas |-> "N",
     sin_retornar_publicacao |-> "N", sin_retornar_campos |-> "N",
     sin_retornar_blocos |-> "N"]

consultar_documento(self, c, a, o) ==
    LET v == ValidarSinalizadores(OrdemConsultarDocumento, a.flags)
    IN  IF v.kind = "raise" THEN Local(c, v)
        ELSE LET r == ChamarServico(self, "consultarDocumento",
                          [IdUnidade |-> self.id_unidade,
                           ProtocoloDocumento |-> a.protocolo_documento,
                           SinRetornarAndamentoGeracao |-> a.flags.sin_retornar_andamento_geracao,
                           SinRetornarAssinaturas |-> a.flags.sin_retornar_assinaturas,
                           SinRetornarPublicacao |-> a.flags.sin_retornar_publicacao,
                           SinRetornarCampos |-> a.flags.sin_retornar_campos,
                           SinRetornarBlocos |-> a.flags.sin_retornar_blocos], o)
             IN  Seguir(Local(c, Ret(PyNone)), r, r.out.val)

ConsultarDocumento ==
    \E fl \in Variantes(PadraoConsultarDocumento), o \in OraculosDeConsulta :
        LET a == [protocolo_documento |-> Valor("ProtocoloDocumento"), flags |-> fl]
        IN  Chamada("consultar_documento", a, consultar_documento(Self, cache, a, o))

OrdemConsultarProcedimento ==
    <<"sin_retornar_assuntos", "sin_retornar_interessados", "sin_retornar_observacoes",
      "sin_retornar_andamento_geracao", "sin_retornar_andamento_conclusao",
      "sin_retornar_ultimo_andamento", "sin_retornar_unidades_procedimento_aberto",
      "sin_retornar_procedimentos_relacionados", "sin_retornar_procedimentos_anexados">>

PadraoConsultarProcedimento ==
    [sin_retornar_assuntos |-> "N", sin_retornar_interessados |-> "N",
     sin_retornar_observacoes |-> "N", sin_retornar_andamento_geracao |-> "N",
     sin_retornar_andamento_conclusao |-> "N", sin_retornar_ultimo_andamento |-> "S",
     sin_retornar_unidades_procedimento_aberto |-> "N",
     sin_retornar_procedimentos_relacionados |-> "N",
     sin_retornar_procedimentos_anexados |-> "N"]

consultar_procedimento(self, c, a, o) ==
    LET v == ValidarSinalizadores(OrdemConsultarProcedimento, a.flags)
    IN  IF v.kind = "raise" THEN Local(c, v)
        ELSE LET r == ChamarServico(self, "consultarProcedimento",
                          [IdUnidade |-> self.id_unidade,
                           ProtocoloProcedimento |-> a.protocolo_processo,
                           SinRetornarAssuntos |-> a.flags.sin_retornar_assuntos,
                           SinRetornarInteressados |-> a.flags.sin_retornar_interessados,
                           SinRetornarObservacoes |-> a.flags.sin_retornar_observacoes,
                           SinRetornarAndamentoGeracao |-> a.flags.sin_retornar_andamento_geracao,
                           SinRetornarAndamentoConclusao |-> a.flags.sin_retornar_andamento_conclusao,
                           SinRetornarUltimoAndamento |-> a.flags.sin_retornar_ultimo_andamento,
                           SinRetornarUnidadesProcedimentoAberto |->
                               a.flags.sin_retornar_unidades_procedimento_aberto,
                           SinRetornarProcedimentosRelacionados |->
                               a.flags.sin_retornar_procedimentos_relacionados,
                           SinRetornarProcedimentosAnexados |->
                               a.flags.sin_retornar_procedimentos_anexados], o)
             IN  Seguir(Local(c, Ret(PyNone)), r, r.out.val)

ConsultarProcedimento ==
    \E fl \in Variantes(PadraoConsultarProcedimento), o \in OraculosDeConsulta :
        LET a == [protocolo_processo |-> Valor("ProtocoloProcedimento"), flags |-> fl]
        IN  Chamada("consultar_procedimento", a, consultar_procedimento(Self, cache, a, o))

----------------------------------------------------------------------------
(* enviar_email *)

Letras ==
    {"a", "b", "c", "d", "e", "f", "g", "h", "i", "j", "k", "l", "m", "n", "o", "p",
     "q", "r", "s", "t", "u", "v", "w", "x", "y", "z",
     "A", "B", "C", "D", "E", "F", "G", "H", "I", "J", "K", "L", "M", "N", "O", "P",
     "Q", "R", "S", "T", "U", "V", "W", "X", "Y", "Z"}

Digitos == {"0", "1", "2", "3", "4", "5", "6", "7", "8", "9"}

\* [a-zA-Z0-9_.+-]
ClasseLocal == Letras \cup Digitos \cup {"_", ".", "+", "-"}

\* [a-zA-Z0-9-]
ClasseDominio == Letras \cup Digitos \cup {"-"}

\* [a-zA-Z0-9-.]
ClasseSufixo == Letras \cup Digitos \cup {"-", "."}

\* where "$" matches: at the end, and before a newline that ends the string
Fins(s) ==
    {Len(s)} \cup (IF Len(s) > 0 /\ s[Len(s)] = "\n" THEN {Len(s) - 1} ELSE {})

\* re.match(r"^[a-zA-Z0-9_.+-]+@[a-zA-Z0-9-]+\.[a-zA-Z0-9-.]+$", email);
\* an e-mail address is a sequence of characters
CasaEmail(s) ==
    \E i \in 2..Len(s), j \in 4..Len(s), n \in Fins(s) :
        /\ s[i] = "@"
        /\ \A k \in 1..(i - 1) : s[k] \in ClasseLocal
        /\ j >= i + 2
        /\ s[j] = "."
        /\ \A k \in (i + 1)..(j - 1) : s[k] \in ClasseDominio
        /\ n >= j + 1
        /\ \A k \in (j + 1)..n : s[k] \in ClasseSufixo

\* a variant of _validar_email that accepts every address
ValidarEmail_permissivo(email) == Ret(PyNone)

\* _validar_email
ValidarEmail(email) ==
    IF ~CasaEmail(email)
      THEN Raise(Exc("ValueError", <<"Email inválido: ", email>>))
      ELSE Ret(PyNone)

\* for email in [de, para, cco]: self._validar_email(email)
ValidarEmails(emails) ==
    LET ruins == {i \in DOMAIN emails : ValidarEmail(emails[i]).kind = "raise"}
    IN  IF ruins = {} THEN Ret(PyNone)
        ELSE ValidarEmail(emails[CHOOSE x \in ruins : \A y \in ruins : x <= y])

\* resultado[chave] on a value the transport returned
Subscrever(v, chave) ==
    IF v.kind = "dict"
      THEN IF chave \in DOMAIN v.val
             THEN Ret(PyStr(v.val[chave]))
             ELSE Raise(Exc("KeyError", <<chave>>))
      ELSE Raise(Exc("TypeError", <<"object is not subscriptable with ", chave>>))

\* [self.consultar_documento(self.sigla_unidade, d)["IdDocumento"] for d in documentos]
\* the two positional arguments bind to protocolo_documento and
\* sin_retornar_andamento_geracao
RECURSIVE IdDocumentos(_, _, _, _, _)
IdDocumentos(self, c, documentos, os, feitos) ==
    IF documentos = <<>> THEN [trace |-> <<>>, out |-> Ret(PyList(feitos))]
    ELSE LET r == consultar_documento(self, c,
                      [protocolo_documento |-> self.sigla_unidade,
                       flags |-> [PadraoConsultarDocumento EXCEPT
                                    !.sin_retornar_andamento_geracao = Head(documentos)]],
                      Head(os))
         IN  IF r.out.kind = "raise" THEN [trace |-> r.trace, out |-> r.out]
             ELSE LET x == Subscrever(r.out.val, "IdDocumento")
                  IN  IF x.kind = "raise" THEN [trace |-> r.trace, out |-> x]
                      ELSE LET resto == IdDocumentos(self, c, Tail(documentos), Tail(os),
                                                     Append(feitos, x.val.val))
                           IN  [trace |-> r.trace \o resto.trace, out |-> resto.out]

enviar_email(self, c, a, os, oe) ==
    LET v == ValidarEmails(<<a.de, a.para, a.cco>>)
    IN  IF v.kind = "raise" THEN Local(c, v)
        ELSE LET ids == IdDocumentos(self, c, a.documentos, os, <<>>)
             IN  IF ids.out.kind = "raise"
                   THEN [trace |-> ids.trace, out |-> ids.out, cache |-> c, pop |-> <<>>]
                   ELSE LET r == ChamarServico(self, "enviarEmail",
                                     [IdUnidade |-> self.id_unidade,
                                      ProtocoloProcedimento |-> a.protocolo_procedimento,
                                      De |-> a.de, Para |-> a.para, CCO |-> a.cco,
                                      Assunto |-> a.assunto, Mensagem |-> a.mensagem,
                                      IdDocumentos |-> ids.out.val.val], oe)
                        IN  [trace |-> ids.trace \o r.trace, out |-> r.out,
                             cache |-> c, pop |-> <<>>]

\* the addresses callers supply
Enderecos ==
    {<<"a", "@", "b", ".", "c">>,
     <<"a", "@", "b">>,
     <<"n", "o", "t", "-", "a", "n", "-", "e", "m", "a", "i", "l">>}

\* the document lists callers supply
ListasDeDocumentos == {<<>>, <<"0208319">>, <<"S", "N">>}

\* the transport is reached only once the three addresses are accepted
OraculosDosDocumentos(emails, ds) ==
    IF ValidarEmails(emails).kind = "raise"
      THEN {[i \in 1..Len(ds) |-> Ret(PyNone)]}
      ELSE [1..Len(ds) -> OraculosDeConsulta]

OraculosDoEnvio(emails) ==
    IF ValidarEmails(emails).kind = "raise" THEN SemOraculo ELSE OraculosDeMutacao

EnviarEmail ==
    \E de \in Enderecos, para \in Enderecos, cco \in Enderecos, ds \in ListasDeDocumentos :
      \E os \in OraculosDosDocumentos(<<de, para, cco>>, ds),
         oe \in OraculosDoEnvio(<<de, para, cco>>) :
        LET a == [protocolo_procedimento |-> Valor("ProtocoloProcedimento"),
                  de |-> de, para |-> para, cco |-> cco,
                  assunto |-> Valor("Assunto"), mensagem |-> Valor("Mensagem"),
                  documentos |-> ds]
        IN  Chamada("enviar_email", a, enviar_email(Self, cache, a, os, oe))

----------------------------------------------------------------------------
(* enviar_processo *)

OrdemEnviarProcesso ==
    <<"sin_manter_aberto_unidade", "sin_remover_anotacao", "sin_enviar_email_notificacao",
      "sin_dias_uteis_retorno_programado", "sin_reabrir">>

PadraoEnviarProcesso ==
    [sin_manter_aberto_unidade |-> "N", sin_remover_anotacao |-> "N",
     sin_enviar_email_notificacao |-> "N", sin_dias_uteis_retorno_programado |-> "N",
     sin_reabrir |-> "S"]

\* a variant that leaves out the destinations it cannot resolve and sends
\* to the others
IdsDasUnidades_parcial(m, unidades_destino) ==
    LET Listada(u) == u \in DOMAIN m
        boas == SelectSeq(unidades_destino, Listada)
    IN  Ret(PyList([i \in DOMAIN boas |-> m[boas[i]]["IdUnidade"]]))

\* [self.unidades[u]["IdUnidade"] for u in unidades_destino] on the mapping m
IdsDasUnidades(m, unidades_destino) ==
    LET fora == {i \in DOMAIN unidades_destino : unidades_destino[i] \notin DOMAIN m}
    IN  IF fora = {}
          THEN Ret(PyList([i \in DOMAIN unidades_destino |->
                              m[unidades_destino[i]]["IdUnidade"]]))
          ELSE Raise(Exc("KeyError",
                     <<unidades_destino[CHOOSE x \in fora : \A y \in fora : x <= y]>>))

enviar_processo(self, c, a, o1, o2) ==
    LET v == ValidarSinalizadores(OrdemEnviarProcesso, a.flags)
    IN  IF v.kind = "raise" THEN Local(c, v)
        ELSE IF a.unidades_destino = <<>>
          THEN LET r2 == ChamarServico(self, "enviarProcesso",
                            [IdUnidade |-> self.id_unidade,
                             ProtocoloProcedimento |-> a.protocolo_procedimento,
                             UnidadesDestino |-> <<>>,
                             SinManterAbertoUnidade |-> a.flags.sin_manter_aberto_unidade,
                             SinRemoverAnotacao |-> a.flags.sin_remover_anotacao,
                             SinEnviarEmailNotificacao |-> a.flags.sin_enviar_email_notificacao,
                             DataRetornoProgramado |-> a.data_retorno_programado,
                             DiasRetornoProgramado |-> a.dias_retorno_programado,
                             SinDiasUteisRetornoProgramado |->
                                 a.flags.sin_dias_uteis_retorno_programado,
                             SinReabrir |-> a.flags.sin_reabrir], o2)
               IN  Seguir(Local(c, Ret(PyNone)), r2, Sucesso(r2.out.val))
        ELSE LET r1 == Tabela(self, c, "unidades", o1)
             IN  IF r1.out.kind = "raise" THEN r1
                 ELSE LET ids == IdsDasUnidades(r1.out.val.val, a.unidades_destino)
                      IN  IF ids.kind = "raise" THEN [r1 EXCEPT !.out = ids]
                          ELSE LET r2 == ChamarServico(self, "enviarProcesso",
                                    [IdUnidade |-> self.id_unidade,
                                     ProtocoloProcedimento |-> a.protocolo_procedimento,
                                     UnidadesDestino |-> ids.val.val,
                                     SinManterAbertoUnidade |-> a.flags.sin_manter_aberto_unidade,
                                     SinRemoverAnotacao |-> a.flags.sin_remover_anotacao,
                                     SinEnviarEmailNotificacao |->
                                         a.flags.sin_enviar_email_notificacao,
                                     DataRetornoProgramado |-> a.data_retorno_programado,
                                     DiasRetornoProgramado |-> a.dias_retorno_programado,
                                     SinDiasUteisRetornoProgramado |->
                                         a.flags.sin_dias_uteis_retorno_programado,
                                     SinReabrir |-> a.flags.sin_reabrir], o2)
                               IN  Seguir(r1, r2, Sucesso(r2.out.val))

\* the destination lists callers supply
ListasDeUnidades == {<<>>, <<"FISF">>, <<"SFI", "FISF">>, <<"SFI", ChaveAusente>>}

EnviarProcesso ==
    \E ud \in ListasDeUnidades, fl \in Variantes(PadraoEnviarProcesso) :
      \E o1 \in OraculosDaTabela("unidades"), o2 \in OraculosDeMutacao :
        LET a == [protocolo_procedimento |-> Valor("ProtocoloProcedimento"),
                  unidades_destino |-> ud, flags |-> fl,
                  data_retorno_programado |-> "", dias_retorno_programado |-> ""]
        IN  Chamada("enviar_processo", a, enviar_processo(Self, cache, a, o1, o2))

----------------------------------------------------------------------------
(* gerar_bloco, gerar_procedimento, lancar_andamento *)

\* a variant of the closed set of block types that admits any type
TiposDeBlocoAceitos_aberto == {"A", "R", "I", "X", ""}

\* assert tipo in ["A", "R", "I"]
TiposDeBlocoAceitos == {"A", "R", "I"}

\* the result of the service call is dropped: the method has no return
gerar_bloco(self, c, a, o) ==
    LET v == ValidarBooleano("sin_disponibilizar", a.flags.sin_disponibilizar)
    IN  IF v.kind = "raise" THEN Local(c, v)
        ELSE IF a.tipo \notin TiposDeBlocoAceitos
          THEN Local(c, Raise(Exc("AssertionError", <<"Tipo de bloco inválido: ", a.tipo>>)))
        ELSE LET r == ChamarServico(self, "gerarBloco",
                          [IdUnidade |-> self.id_unidade,
                           Tipo |-> a.tipo,
                           Descricao |-> a.descricao,
                           UnidadesDisponibilizacao |-> a.unidades_disponibilizacao,
                           Documentos |-> a.documentos,
                           SinDisponibilizar |-> a.flags.sin_disponibilizar], o)
             IN  Seguir(Local(c, Ret(PyNone)), r, PyNone)

TiposDeBloco == {"A", "R", "I", "X", ""}

GerarBloco ==
    \E tipo \in TiposDeBloco, f \in Sinalizadores, o \in OraculosDeConsulta :
        LET a == [tipo |-> tipo, descricao |-> Valor("Descricao"),
                  unidades_disponibilizacao |-> <<"1101">>,
                  documentos |-> <<Valor("ProtocoloDocumento")>>,
                  flags |-> [sin_disponibilizar |-> f]]
        IN  Chamada("gerar_bloco", a, gerar_bloco(Self, cache, a, o))

PadraoGerarProcedimento ==
    [sin_manter_aberto_unidade |-> "N", sin_enviar_email_notificacao |-> "N",
     sin_dias_uteis_retorno_programado |-> "N", sin_dias_uteis_controle_prazo |-> "N"]

gerar_procedimento(self, c, a, o) ==
    LET r == ChamarServico(self, "gerarProcedimento",
                 [IdUnidade |-> self.id_unidade,
                  Procedimento |-> a.procedimento,
                  Documentos |-> a.documentos,
                  ProcedimentosRelacionados |-> a.procedimentos_relacionados,
                  UnidadesEnvio |-> a.unidades_envio,
                  SinManterAbertoUnidade |-> a.flags.sin_manter_aberto_unidade,
                  SinEnviarEmailNotificacao |-> a.flags.sin_enviar_email_notificacao,
                  DataRetornoProgramado |-> a.data_retorno_programado,
                  DiasRetornoProgramado |-> a.dias_retorno_programado,
                  SinDiasUteisRetornoProgramado |-> a.flags.sin_dias_uteis_retorno_programado,
                  IdMarcador |-> a.id_marcador,
                  TextoMarcador |-> a.texto_marcador,
                  DataControlePrazo |-> a.data_controle_prazo,
                  DiasControlePrazo |-> a.dias_controle_prazo,
                  SinDiasUteisControlePrazo |-> a.flags.sin_dias_uteis_controle_prazo], o)
    IN  Seguir(Local(c, Ret(PyNone)), r, r.out.val)

GerarProcedimento ==
    \E fl \in Variantes(PadraoGerarProcedimento), o \in OraculosDeConsulta :
        LET a == [procedimento |-> Valor("Procedimento"),
                  documentos |-> SkipValue, procedimentos_relacionados |-> SkipValue,
                  unidades_envio |-> SkipValue, flags |-> fl,
                  data_retorno_programado |-> SkipValue,
                  dias_retorno_programado |-> SkipValue,
                  id_marcador |-> SkipValue, texto_marcador |-> "",
                  data_controle_prazo |-> SkipValue, dias_controle_prazo |-> SkipValue]
        IN  Chamada("gerar_procedimento", a, gerar_procedimento(Self, cache, a, o))

lancar_andamento(self, c, a, o) ==
    LET atributos == IF a.atributos = Nenhum THEN <<>> ELSE a.atributos
        kwargs == [IdUnidade |-> self.id_unidade,
                   ProtocoloProcedimento |-> a.protocolo_procedimento,
                   IdTarefa |-> a.id_tarefa,
                   IdTarefaModulo |-> IF a.id_tarefa_modulo # Nenhum
                                        THEN a.id_tarefa_modulo ELSE "",
                   Atributos |-> atributos]
        r == ChamarServico(self, "lancarAndamento", kwargs, o)
    IN  Seguir(Local(c, Ret(PyNone)), r, r.out.val)

LancarAndamento ==
    \E m \in {Nenhum, "7"}, o \in OraculosDeConsulta :
        LET a == [protocolo_procedimento |-> Valor("ProtocoloProcedimento"),
                  id_tarefa |-> "65", id_tarefa_modulo |-> m, atributos |-> Nenhum]
        IN  Chamada("lancar_andamento", a, lancar_andamento(Self, cache, a, o))

----------------------------------------------------------------------------
(* The listing and query wrappers with validated or resolved arguments *)

listar_andamentos(self, c, a, o) ==
    LET v == ValidarBooleano("sin_retornar_atributos", a.flags.sin_retornar_atributos)
    IN  IF v.kind = "raise" THEN Local(c, v)
        ELSE LET r == ChamarServico(self, "listarAndamentos",
                          [IdUnidade |-> self.id_unidade,
                           ProtocoloProcedimento |-> a.protocolo_procedimento,
                           SinRetornarAtributos |-> a.flags.sin_retornar_atributos,
                           Andamentos |-> a.andamentos,
                           Tarefas |-> a.tarefas,
                           TarefasModulos |-> a.tarefas_modulos], o)
             IN  Seguir(Local(c, Ret(PyNone)), r, r.out.val)

ListarAndamentos ==
    \E f \in Sinalizadores, o \in OraculosDeConsulta :
        LET a == [protocolo_procedimento |-> Valor("ProtocoloProcedimento"),
                  flags |-> [sin_retornar_atributos |-> f],
                  andamentos |-> "", tarefas |-> "", tarefas_modulos |-> ""]
        IN  Chamada("listar_andamentos", a, listar_andamentos(Self, cache, a, o))

\* assert nivel_acesso in ["1", "2"]
NiveisDeAcessoAceitos == {"1", "2"}

listar_hipoteses_legais(self, c, a, o) ==
    IF Truthy(a.nivel_acesso) /\ a.nivel_acesso \notin NiveisDeAcessoAceitos
      THEN Local(c, Raise(Exc("AssertionError",
               <<"Valor inválido para nivel_acesso. Valores possíveis: 1 - restrito, 2 - sigiloso">>)))
      ELSE LET r == ChamarServico(self, "listarHipotesesLegais",
                        [IdUnidade |-> self.id_unidade, NivelAcesso |-> a.nivel_acesso], o)
           IN  Seguir(Local(c, Ret(PyNone)), r, r.out.val)

NiveisDeAcesso == {"", "0", "1", "2", "3"}

ListarHipotesesLegais ==
    \E n \in NiveisDeAcesso, o \in OraculosDeConsulta :
        LET a == [nivel_acesso |-> n]
        IN  Chamada("listar_hipoteses_legais", a, listar_hipoteses_legais(Self, cache, a, o))

\* the result of the service call is dropped: the method has no return
listar_contatos(self, c, a, o) ==
    LET r == ChamarServico(self, "listarContatos",
                 [IdUnidade |-> self.id_unidade,
                  IdTipoContato |-> a.id_tipo_contato,
                  PaginaRegistros |-> a.pagina_registros,
                  PaginaAtual |-> a.pagina_atual,
                  Sigla |-> a.sigla, Nome |-> a.nome, Cpf |-> a.cpf, Cnpj |-> a.cnpj,
                  Matricula |-> a.matricula, IdContatos |-> a.id_contatos], o)
    IN  Seguir(Local(c, Ret(PyNone)), r, PyNone)

ListarContatos ==
    \E o \in OraculosDeConsulta :
        LET a == [id_tipo_contato |-> "", pagina_registros |-> "1", pagina_atual |-> "1",
                  sigla |-> "", nome |-> "", cpf |-> "", cnpj |-> "", matricula |-> "",
                  id_contatos |-> ""]
        IN  Chamada("listar_contatos", a, listar_contatos(Self, cache, a, o))

listar_estados(self, c, a, o1, o2) ==
    LET r1 == IF Truthy(a.sigla_pais) THEN Validar(self, c, "paises", a.sigla_pais, o1)
                                      ELSE Local(c, Ret(PyStr("")))
    IN  IF r1.out.kind = "raise" THEN r1
        ELSE LET r2 == ChamarServico(self, "listarEstados",
                          [IdUnidade |-> self.id_unidade, IdPais |-> r1.out.val.val], o2)
             IN  Seguir(r1, r2, r2.out.val)

ListarEstados ==
    \E sp \in {"", "Brasil", ChaveAusente} :
      \E o1 \in (IF Truthy(sp) THEN OraculosDaTabela("paises") ELSE SemOraculo),
         o2 \in OraculosDeConsulta :
        LET a == [sigla_pais |-> sp]
        IN  Chamada("listar_estados", a, listar_estados(Self, cache, a, o1, o2))

\* seiws.estrutura_de_dados.EXTENSOES
EXTENSOES ==
    {".pdf", ".jpg", ".jpeg", ".png", ".gif", ".bmp", ".tif", ".tiff", ".doc",
     ".docx", ".xls", ".xlsx", ".ppt", ".pptx", ".txt", ".rtf", ".html", ".htm",
     ".xml", ".zip", ".rar", ".7z", ".odt", ".ods", ".ott", ".csv"}

listar_extensoes_permitidas(self, c, a, o) ==
    IF Truthy(a.id_arquivo_extensao) /\ a.id_arquivo_extensao \notin EXTENSOES
      THEN Local(c, Raise(Exc("AssertionError",
                              <<"Extensão inválida: ", a.id_arquivo_extensao>>)))
      ELSE LET r == ChamarServico(self, "listarExtensoesPermitidas",
                        [IdUnidade |-> self.id_unidade,
                         IdArquivoExtensao |-> a.id_arquivo_extensao], o)
           IN  Seguir(Local(c, Ret(PyNone)), r, r.out.val)

ListarExtensoesPermitidas ==
    \E x \in {"", ".pdf", ".exe"}, o \in OraculosDeConsulta :
        LET a == [id_arquivo_extensao |-> x]
        IN  Chamada("listar_extensoes_permitidas", a,
                    listar_extensoes_permitidas(Self, cache, a, o))

\* a variant that filters by the session's unit when no unit is given
listar_series_unidade_da_sessao(self, c, a, o1, o2) ==
    LET r1 == IF Truthy(a.sigla_unidade) THEN Validar(self, c, "unidades", a.sigla_unidade, o1)
                                         ELSE Local(c, Ret(PyStr(self.id_unidade)))
    IN  IF r1.out.kind = "raise" THEN r1
        ELSE LET r2 == ChamarServico(self, "listarSeries",
                          [IdUnidade |-> r1.out.val.val,
                           IdTipoProcedimento |-> a.id_tipo_procedimento], o2)
             IN  Seguir(r1, r2, r2.out.val)

listar_series(self, c, a, o1, o2) ==
    LET r1 == IF Truthy(a.sigla_unidade) THEN Validar(self, c, "unidades", a.sigla_unidade, o1)
                                         ELSE Local(c, Ret(PyStr("")))
    IN  IF r1.out.kind = "raise" THEN r1
        ELSE LET r2 == ChamarServico(self, "listarSeries",
                          [IdUnidade |-> r1.out.val.val,
                           IdTipoProcedimento |-> a.id_tipo_procedimento], o2)
             IN  Seguir(r1, r2, r2.out.val)

ListarSeries ==
    \E su \in {"", "FISF", ChaveAusente} :
      \E o1 \in (IF Truthy(su) THEN OraculosDaTabela("unidades") ELSE SemOraculo),
         o2 \in OraculosDeListagem("documentos", remoto) :
        LET a == [sigla_unidade |-> su, id_tipo_procedimento |-> ""]
        IN  Chamada("listar_series", a, listar_series(Self, cache, a, o1, o2))

\* the methods the class SeiClient defines for resolving and validating
Validadores ==
    {"_validar_unidade", "_validar_usuario", "_validar_documento",
     "_validar_booleano", "_validar_email", "_validar_pais"}

\* self._validar_series(tipo_de_documento): attribute lookup on the object
validar_series(self, c, tipo_de_documento, o) ==
    IF "_validar_series" \notin Validadores
      THEN Local(c, Raise(Exc("AttributeError",
               <<"'SeiClient' object has no attribute ", "_validar_series">>)))
      ELSE Validar(self, c, "documentos", tipo_de_documento, o)

listar_tipos_procedimento(self, c, a, o1, o2, o3) ==
    LET r1 == IF a.sigla_unidade # Nenhum
                THEN Validar(self, c, "unidades", a.sigla_unidade, o1)
                ELSE Local(c, Ret(PyStr("")))
    IN  IF r1.out.kind = "raise" THEN r1
        ELSE LET r2 == IF a.tipo_de_documento # Nenhum
                         THEN validar_series(self, r1.cache, a.tipo_de_documento, o2)
                         ELSE Local(r1.cache, Ret(PyStr("")))
                 r12 == Junto(r1, r2)
             IN  IF r2.out.kind = "raise" THEN r12
                 ELSE LET r3 == ChamarServico(self, "listarTiposProcedimento",
                                   [IdUnidade |-> r1.out.val.val,
                                    IdSerie |-> r2.out.val.val,
                                    SinIndividual |-> a.flags.sin_individual], o3)
                      IN  Seguir(r12, r3, r3.out.val)

ListarTiposProcedimento ==
    \E su \in {Nenhum, "SFI", ChaveAusente}, td \in {Nenhum, "Oficio", ChaveAusente},
       f \in Sinalizadores :
      \E o1 \in (IF su # Nenhum THEN OraculosDaTabela("unidades") ELSE SemOraculo),
         o2 \in SemOraculo,
         o3 \in (IF td # Nenhum THEN SemOraculo ELSE OraculosDeConsulta) :
        LET a == [sigla_unidade |-> su, tipo_de_documento |-> td,
                  flags |-> [sin_individual |-> f]]
        IN  Chamada("listar_tipos_procedimento", a,
                    listar_tipos_procedimento(Self, cache, a, o1, o2, o3))

\* a variant of listar_unidades that serves the stored unit table
listar_unidades_em_cache(self, c, a, o1, o2) ==
    Tabela(self, c, "unidades", o2)

listar_unidades(self, c, a, o1, o2) ==
    LET r1 == IF Truthy(a.tipo_de_documento)
                THEN Validar(self, c, "documentos", a.tipo_de_documento, o1)
                ELSE Local(c, Ret(PyStr("")))
    IN  IF r1.out.kind = "raise" THEN r1
        ELSE LET r2 == ChamarServico(self, "listarUnidades",
                          [IdTipoProcedimento |-> a.id_tipo_procedimento,
                           IdSerie |-> r1.out.val.val], o2)
             IN  Seguir(r1, r2, r2.out.val)

ListarUnidades ==
    \E tp \in {"", "123"}, td \in {"", "Oficio", ChaveAusente} :
      \E o1 \in (IF Truthy(td) THEN OraculosDaTabela("documentos") ELSE SemOraculo),
         o2 \in OraculosDeListagem("unidades", remoto) :
        LET a == [id_tipo_procedimento |-> tp, tipo_de_documento |-> td]
        IN  Chamada("listar_unidades", a, listar_unidades(Self, cache, a, o1, o2))

\* a caller's flow: listar_unidades() and, if it returns, listar_unidades()
\* again, both with the default arguments; the flow returns the two results
\* r1 is the first call and r2 the second, made on the client as r1 left it
listar_unidades_duas_vezes(r1, r2) ==
    IF r1.out.kind = "raise" THEN r1
    ELSE [trace |-> r1.trace \o r2.trace,
          out |-> IF r2.out.kind = "raise" THEN r2.out
                  ELSE Ret(PyList(<<r1.out.val, r2.out.val>>)),
          cache |-> r2.cache,
          pop |-> r1.pop \o r2.pop]

\* the transport returns a fixed list of unit records, or faults
ListarUnidadesDuasVezes ==
    \E o1 \in OraculosDeListagem("unidades", remoto),
       o2 \in OraculosDeListagem("unidades", remoto) :
        LET a == [id_tipo_procedimento |-> "", tipo_de_documento |-> ""]
        IN  \E r1 \in {listar_unidades(Self, cache, a, Ret(PyNone), o1)} :
              \E r2 \in {listar_unidades(Self, r1.cache, a, Ret(PyNone), o2)} :
                Chamada("listar_unidades; listar_unidades", a,
                        listar_unidades_duas_vezes(r1, r2))

----------------------------------------------------------------------------
(* Direct use of the tables, the resolvers and the invoker *)

AcessarTabela ==
    \E t \in Tabelas :
      \E o \in OraculosDaTabela(t) :
        Chamada(t, <<>>, Tabela(Self, cache, t, o))

NomeDoValidador(t) ==
    CASE t = "unidades"   -> "_validar_unidade"
      [] t = "usuarios"   -> "_validar_usuario"
      [] t = "documentos" -> "_validar_documento"
      [] t = "paises"     -> "_validar_pais"

Resolver ==
    \E t \in Tabelas :
      \E chave \in {Chaves(t)[1], Chaves(t)[2], ChaveAusente}, o \in OraculosDaTabela(t) :
        Chamada(NomeDoValidador(t), [chave |-> chave], Validar(Self, cache, t, chave, o))

\* the keyword arguments of a direct _chamar_servico call
KwargsDiretos ==
    {[IdUnidade |-> id_unidade],
     [IdUnidade |-> id_unidade, SiglaSistema |-> "OutroSistema"],
     [IdUnidade |-> id_unidade, IdentificacaoServico |-> "outra-chave"]}

ChamarServicoDireto ==
    \E op \in {"listarCargos", "operacaoInexistente"}, kw \in KwargsDiretos :
      \E o \in OraculosDeConsulta :
        LET r == ChamarServico(Self, op, kw, o)
        IN  Chamada("_chamar_servico", [nome_operacao |-> op, kwargs |-> kw],
                    [trace |-> r.trace, out |-> r.out, cache |-> cache, pop |-> <<>>])

----------------------------------------------------------------------------
(* helpers.py and instanciar_cliente_sei *)

\* the names helpers.py binds at module level before download_wsdl runs
NomesEmHelpers == {"Client", "xsd", "InvalidAmbienteError", "InvalidWSDLError"}

\* download_wsdl: both supported branches evaluate Path(__file__) first
download_wsdl(ambiente) ==
    IF ambiente \in {"homologação", "produção"}
      THEN IF "Path" \notin NomesEmHelpers
             THEN [trace |-> <<>>,
                   out |-> Raise(Exc("NameError", <<"name 'Path' is not defined">>))]
             ELSE [trace |-> <<[ev |-> "wsdl", ambiente |-> ambiente]>>,
                   out |-> Ret(PyStr(IF ambiente = "homologação"
                                       THEN "seihm.wsdl" ELSE "sei.wsdl"))]
      ELSE [trace |-> <<>>,
            out |-> Raise(Exc("InvalidAmbienteError", <<"Ambiente inválido: ", ambiente>>))]

\* what zeep's Client(wsdl_file) may do
OraculosDoClient ==
    {Ret(PyStr("<zeep.Client>")), Raise(Exc("Exception", <<"invalid WSDL">>))}

instanciar_cliente_soap(wsdl_file, o) ==
    LET ev == [ev |-> "Client", wsdl |-> wsdl_file, out |-> o]
    IN  IF o.kind = "raise"
          THEN [trace |-> <<ev>>,
                out |-> Raise(Exc("InvalidWSDLError",
                                  <<"Erro ao criar o cliente SOAP: ", o.exc>>))]
          ELSE [trace |-> <<ev>>, out |-> o]

\* instanciar_cliente_sei up to the point where SeiClient(...) is called
preparar_cliente_sei(ambiente, o) ==
    IF ambiente \notin {"homologacao", "producao"}
      THEN [trace |-> <<>>,
            out |-> Raise(Exc("AssertionError", <<"Ambiente inválido: ", ambiente>>))]
      ELSE LET d == download_wsdl(ambiente)
           IN  IF d.out.kind = "raise" THEN d
               ELSE LET k == instanciar_cliente_soap(d.out.val.val, o)
                    IN  [trace |-> d.trace \o k.trace, out |-> k.out]

Ambientes ==
    {"homologação", "produção", "homologacao", "producao", "desenvolvimento", "invalid"}

\* a call of a module-level function that leaves no client object
Funcao(nome, args, r) ==
    /\ ~pronto
    /\ ultima = Nenhuma
    /\ ultima' = [name |-> nome, args |-> args, trace |-> r.trace, out |-> r.out,
                  pop |-> {}]
    /\ UNCHANGED <<pronto, sigla_sistema, chave_api, sigla_unidade, id_unidade,
                   cache, remoto, fios, cadeado>>

DownloadWsdl ==
    \E ambiente \in Ambientes :
        Funcao("download_wsdl", [ambiente |-> ambiente], download_wsdl(ambiente))

InstanciarClienteSoap ==
    \E w \in {"seihm.wsdl", "sei.wsdl"}, o \in OraculosDoClient :
        Funcao("instanciar_cliente_soap", [wsdl_file |-> w], instanciar_cliente_soap(w, o))

InstanciarClienteSei ==
    /\ ~pronto
    /\ ultima = Nenhuma
    /\ \E ambiente \in Ambientes, ss \in SiglasSistema, ch \in ChavesApi,
          su \in SiglasUnidade :
         LET a == [ambiente |-> ambiente, sigla_sistema |-> ss, chave_api |-> ch,
                   sigla_unidade |-> su]
         IN  \E oc \in (IF download_wsdl(ambiente).out.kind = "raise"
                          THEN SemOraculo ELSE OraculosDoClient) :
               LET p == preparar_cliente_sei(ambiente, oc)
               IN  IF p.out.kind = "raise"
                     THEN Funcao("instanciar_cliente_sei", a, p)
                     ELSE \E o \in OraculosDeListagem("unidades", remoto) :
                            SeiClientInit("instanciar_cliente_sei", a, p.trace,
                                          ss, ch, su, o)

----------------------------------------------------------------------------
(* The specification *)

Init ==
    /\ pronto = FALSE
    /\ sigla_sistema = ""
    /\ chave_api = ""
    /\ sigla_unidade = ""
    /\ id_unidade = ""
    /\ cache = CacheInicial
    /\ remoto = 0
    /\ ultima = Nenhuma
    /\ fios = <<>>
    /\ cadeado = "ausente"

Next ==
    \/ Construir
    \/ MudarRemoto
    \/ Retomar
    \/ MutacaoSimples
    \/ ConsultaSimples
    \/ AtribuirProcesso
    \/ ConsultarBloco
    \/ ConsultarDocumento
    \/ ConsultarProcedimento
    \/ EnviarEmail
    \/ EnviarProcesso
    \/ GerarBloco
    \/ GerarProcedimento
    \/ LancarAndamento
    \/ ListarAndamentos
    \/ ListarHipotesesLegais
    \/ ListarContatos
    \/ ListarEstados
    \/ ListarExtensoesPermitidas
    \/ ListarSeries
    \/ ListarTiposProcedimento
    \/ ListarUnidades
    \/ ListarUnidadesDuasVezes
    \/ AcessarTabela
    \/ Resolver
    \/ ChamarServicoDireto
    \/ DownloadWsdl
    \/ InstanciarClienteSoap
    \/ InstanciarClienteSei

Spec == Init /\ [][Next]_vars


----------------------------------------------------------------------------
(* Properties: vocabulary *)

\* the positions of the transport invocations in a trace
Invocacoes(trace) == {i \in DOMAIN trace : trace[i].ev = "call"}

\* the session whose call ultima records: the arguments of the constructor
\* while the object is being built, the object's fields afterwards
Sessao ==
    IF ultima.name \in {"SeiClient", "instanciar_cliente_sei"}
      THEN [sigla_sistema |-> ultima.args.sigla_sistema, chave_api |-> ultima.args.chave_api]
      ELSE [sigla_sistema |-> sigla_sistema, chave_api |-> chave_api]

\* the public wrappers that take sin_* parameters
MetodosComSinalizador ==
    {"atribuir_processo", "consultar_bloco", "consultar_documento",
     "consultar_procedimento", "enviar_processo", "gerar_bloco", "gerar_procedimento",
     "listar_andamentos", "listar_tipos_procedimento"}

\* the call recorded in u passes a sin_* argument that is neither "S" nor "N"
SinalizadorInvalido(u) ==
    /\ u.name \in MetodosComSinalizador
    /\ \E f \in DOMAIN u.args.flags : u.args.flags[f] \notin {"S", "N"}

----------------------------------------------------------------------------
(* C1: memoization of the directory tables *)

\* the call recorded in u is an access to table t or a resolution through it
Acesso(u, t) == u.name \in {t, NomeDoValidador(t)}

\* what an access recorded in u returns when it is served from mapping m
ServidoDe(u, t, m) ==
    IF u.name = t THEN u.out = Ret(PyDict(m))
    ELSE IF u.args.chave \in DOMAIN m
      THEN u.out = Ret(PyStr(m[u.args.chave][CampoId(t)]))
      ELSE u.out = Raise(Exc("ValueError", <<MensagemInvalido(t), u.args.chave>>))

\* C1 as stated: on one client, the first access to a table invokes its
\* listing operation and leaves the table populated, and no later access
\* invokes the listing again, so that the listing is invoked exactly once
\* over any sequence of accesses and resolutions.
C1_listing_exactly_once ==
    [][(pronto /\ pronto') =>
        \A t \in Tabelas :
            /\ (Acesso(ultima', t) /\ ~cache[t].set) =>
                  /\ Cardinality(Invocacoes(ultima'.trace)) = 1
                  /\ cache'[t].set
            /\ (Acesso(ultima', t) /\ cache[t].set) =>
                  /\ Invocacoes(ultima'.trace) = {}
                  /\ cache'[t] = cache[t]]_vars

\* C1 amended: on one client, an access to a table that holds no mapping
\* invokes the table's listing operation exactly once; if the listing returns,
\* the mapping built from it (keyed by Sigla/Nome, a later record replacing an
\* earlier one) is stored, and if it fails nothing is stored, so the next
\* access lists again. Once stored, the mapping is never changed by any call,
\* and every access or resolution is served from it with no remote operation,
\* even when the remote listing has changed.
C1_memoization ==
    [][(pronto /\ pronto') =>
        \A t \in Tabelas :
            /\ cache[t].set => cache'[t] = cache[t]
            /\ (Acesso(ultima', t) /\ cache[t].set) =>
                  /\ ultima'.trace = <<>>
                  /\ ServidoDe(ultima', t, cache[t].map)
            /\ (Acesso(ultima', t) /\ ~cache[t].set) =>
                  /\ Cardinality(Invocacoes(ultima'.trace)) = 1
                  /\ \A i \in Invocacoes(ultima'.trace) :
                        /\ ultima'.trace[i].op = OperacaoDeListagem(t)
                        /\ IF ultima'.trace[i].out.kind = "return"
                             THEN /\ cache'[t].set
                                  /\ cache'[t].map =
                                        DictPor(CampoChave(t),
                                                ultima'.trace[i].out.val.val)
                                  /\ ServidoDe(ultima', t, cache'[t].map)
                             ELSE /\ cache'[t] = cache[t]
                                  /\ ultima'.out = ultima'.trace[i].out]_vars

\* a login was resolved from the stored mapping, with no remote operation,
\* after the remote listing of users had changed
C1_witness ==
    /\ pronto
    /\ ultima.name = "_validar_usuario"
    /\ ultima.out.kind = "return"
    /\ ultima.trace = <<>>
    /\ cache["usuarios"].set
    /\ cache["usuarios"].map # DictPor("Sigla", Listagem("usuarios", remoto))

----------------------------------------------------------------------------
(* C2: the session envelope *)

\* C2: every remote operation invoked, whatever the operation and the
\* per-call parameters, and including the listing calls of construction and
\* of table population, carries SiglaSistema equal to the session's
\* sigla_sistema and IdentificacaoServico equal to the session's chave_api.
C2_envelope ==
    \A i \in Invocacoes(ultima.trace) :
        /\ {"SiglaSistema", "IdentificacaoServico"} \subseteq DOMAIN ultima.trace[i].args
        /\ ultima.trace[i].args.SiglaSistema = Sessao.sigla_sistema
        /\ ultima.trace[i].args.IdentificacaoServico = Sessao.chave_api

\* a wrapper call that populated a table and then dispatched its own operation
C2_witness ==
    /\ ultima.name = "atribuir_processo"
    /\ Cardinality(Invocacoes(ultima.trace)) = 2
    /\ \E i \in Invocacoes(ultima.trace) : ultima.trace[i].op = "listarUsuarios"
    /\ \E i \in Invocacoes(ultima.trace) : ultima.trace[i].op = "atribuirProcesso"

----------------------------------------------------------------------------
(* C3: flags are validated before any remote operation *)

\* C3: a public wrapper with a sin_* parameter that is called with a flag
\* value other than "S" or "N" fails, and no remote operation at all is
\* invoked during that call.
C3_flags_fail_locally ==
    SinalizadorInvalido(ultima) =>
        /\ ultima.out.kind = "raise"
        /\ Invocacoes(ultima.trace) = {}

----------------------------------------------------------------------------
(* C4: the success coercion *)

\* the boolean-returning mutation wrappers
MetodosDeMutacao ==
    {w.nome : w \in MutacoesSimples} \cup {"atribuir_processo", "enviar_processo"}

\* the position of the last transport invocation of a trace
UltimaInvocacao(trace) == Maximo(Invocacoes(trace))

\* C4: a boolean-returning mutation wrapper that returns gives True exactly
\* when the raw result of its remote operation is the string "1", and False
\* for every other raw result ("0", "", None, the integer 1, another string).
C4_success_coercion ==
    (ultima.name \in MetodosDeMutacao /\ ultima.out.kind = "return") =>
        /\ Invocacoes(ultima.trace) # {}
        /\ LET raw == ultima.trace[UltimaInvocacao(ultima.trace)].out.val
           IN  ultima.out.val =
                  (IF raw.kind = "str" /\ raw.val = "1"
                     THEN [kind |-> "bool", val |-> "True"]
                     ELSE [kind |-> "bool", val |-> "False"])

\* the remote returned the integer 1 and the wrapper returned False
C4_witness ==
    /\ ultima.name = "concluir_processo"
    /\ ultima.out = Ret([kind |-> "bool", val |-> "False"])
    /\ \E i \in Invocacoes(ultima.trace) :
          /\ ultima.trace[i].op = "concluirProcesso"
          /\ ultima.trace[i].out = Ret(PyInt("1"))

----------------------------------------------------------------------------
(* C5: unknown keys *)

\* the pairs <<table, key>> the call recorded in u asks the client to resolve
ChavesFornecidas(u) ==
    CASE u.name = "atribuir_processo" -> {<<"usuarios", u.args.sigla_usuario>>}
      [] u.name = "enviar_processo" ->
            {<<"unidades", u.args.unidades_destino[i]>> : i \in DOMAIN u.args.unidades_destino}
      [] u.name = "listar_estados" ->
            IF Truthy(u.args.sigla_pais) THEN {<<"paises", u.args.sigla_pais>>} ELSE {}
      [] u.name = "listar_series" ->
            IF Truthy(u.args.sigla_unidade) THEN {<<"unidades", u.args.sigla_unidade>>} ELSE {}
      [] u.name = "listar_tipos_procedimento" ->
            (IF u.args.sigla_unidade # Nenhum
               THEN {<<"unidades", u.args.sigla_unidade>>} ELSE {})
            \cup (IF u.args.tipo_de_documento # Nenhum
                    THEN {<<"documentos", u.args.tipo_de_documento>>} ELSE {})
      [] u.name = "listar_unidades" ->
            IF Truthy(u.args.tipo_de_documento)
              THEN {<<"documentos", u.args.tipo_de_documento>>} ELSE {}
      [] u.name \in {NomeDoValidador(t) : t \in Tabelas} ->
            {<<t, u.args.chave>> : t \in {x \in Tabelas : NomeDoValidador(x) = u.name}}
      [] OTHER -> {}

\* the remote operation a resolving wrapper exists to dispatch
OperacaoPropria(nome) ==
    CASE nome = "atribuir_processo" -> "atribuirProcesso"
      [] nome = "enviar_processo" -> "enviarProcesso"
      [] nome = "listar_estados" -> "listarEstados"
      [] nome = "listar_series" -> "listarSeries"
      [] nome = "listar_tipos_procedimento" -> "listarTiposProcedimento"
      [] nome = "listar_unidades" -> "listarUnidades"
      [] OTHER -> ""

\* the keys of the call recorded in u that the remote directory does not list
ChavesAusentes(u) ==
    {x \in ChavesFornecidas(u) : x[2] \notin Elementos(Chaves(x[1]))}

\* C5: a wrapper that is given a key the directory does not list (its flags
\* being valid and every listing it made having returned) fails with the
\* "invalid X" error of that table naming that key, and does not dispatch its
\* own remote operation.
C5_unknown_key_invalid_error ==
    (/\ ChavesAusentes(ultima) # {}
     /\ ~SinalizadorInvalido(ultima)
     /\ \A i \in Invocacoes(ultima.trace) : ultima.trace[i].out.kind = "return") =>
        /\ \E x \in ChavesAusentes(ultima) :
              ultima.out = Raise(Exc("ValueError", <<MensagemInvalido(x[1]), x[2]>>))
        /\ \A i \in Invocacoes(ultima.trace) :
              ultima.trace[i].op # OperacaoPropria(ultima.name)

----------------------------------------------------------------------------
(* C6: a failing remote operation *)

\* trace[j] is the error record of operation op failing with e
RegistroDeErro(trace, j, op, e) ==
    /\ j \in DOMAIN trace
    /\ trace[j].ev = "log"
    /\ trace[j].level = "ERROR"
    /\ trace[j].a1 = op
    /\ trace[j].a2 = e

\* the positions of the error records of a trace
Erros(trace) == {j \in DOMAIN trace : trace[j].ev = "log" /\ trace[j].level = "ERROR"}

\* C6: when a remote operation invoked by _chamar_servico fails, the call
\* ends there: the next and last event is the one error record, naming the
\* operation and the exception; the caller gets that same exception and no
\* result; and the one request record before the invocation shows that the
\* transport was invoked once. An operation name the transport does not
\* expose fails the same way without any invocation.
C6_failure_propagates ==
    /\ \A i \in Invocacoes(ultima.trace) :
          ultima.trace[i].out.kind = "raise" =>
              /\ i + 1 = Len(ultima.trace)
              /\ RegistroDeErro(ultima.trace, i + 1, ultima.trace[i].op,
                                ultima.trace[i].out.exc)
              /\ Erros(ultima.trace) = {i + 1}
              /\ ultima.out = Raise(ultima.trace[i].out.exc)
              /\ i - 1 \in DOMAIN ultima.trace
              /\ ultima.trace[i - 1].ev = "log"
              /\ ultima.trace[i - 1].level = "INFO"
              /\ ultima.trace[i - 1].a1 = ultima.trace[i].op
    /\ (ultima.name = "_chamar_servico"
        /\ ultima.args.nome_operacao \notin OperacoesDoServico) =>
              /\ Invocacoes(ultima.trace) = {}
              /\ Erros(ultima.trace) = {Len(ultima.trace)}
              /\ ultima.trace[Len(ultima.trace)].a1 = ultima.args.nome_operacao
              /\ ultima.out = Raise(ultima.trace[Len(ultima.trace)].a2)
              /\ ultima.out.exc.type = "AttributeError"

\* a wrapper whose own operation faulted after its listing call had returned
C6_witness ==
    /\ ultima.name = "atribuir_processo"
    /\ Len(ultima.trace) = 6
    /\ ultima.trace[5].ev = "call"
    /\ ultima.trace[5].op = "atribuirProcesso"
    /\ ultima.trace[5].out = Raise(Fault)
    /\ ultima.out = Raise(Fault)

----------------------------------------------------------------------------
(* C7, C8: the environment name *)

\* the trace holds a WSDL download or the construction of a SOAP client
TocouTransporte(trace) == \E i \in DOMAIN trace : trace[i].ev \in {"wsdl", "Client"}

\* C7: constructing a client with an environment name that neither
\* instanciar_cliente_sei nor download_wsdl supports raises
\* InvalidAmbienteError, with no WSDL fetched and no SOAP client instantiated.
C7_invalid_ambiente_error ==
    (/\ ultima.name = "instanciar_cliente_sei"
     /\ ultima.args.ambiente \notin {"homologacao", "producao", "homologação", "produção"}) =>
        /\ ultima.out.kind = "raise"
        /\ ultima.out.exc.type = "InvalidAmbienteError"
        /\ ~TocouTransporte(ultima.trace)

\* C8: for each environment name instanciar_cliente_sei accepts, the call
\* raises no environment error, obtains the WSDL from download_wsdl and
\* goes on to build the SOAP client.
C8_accepted_ambiente_builds ==
    (/\ ultima.name = "instanciar_cliente_sei"
     /\ ultima.args.ambiente \in {"homologacao", "producao"}) =>
        /\ ~(ultima.out.kind = "raise" /\ ultima.out.exc.type = "InvalidAmbienteError")
        /\ \E i \in DOMAIN ultima.trace : ultima.trace[i].ev = "wsdl"
        /\ \E i \in DOMAIN ultima.trace : ultima.trace[i].ev = "Client"

----------------------------------------------------------------------------
(* C9: e-mail addresses *)

\* an address without the shape  local "@" domain "." suffix  (each part
\* non-empty): it has no "@", or nothing before it, or no "." that has
\* something between it and the "@" and something after it
MalFormado(s) ==
    ~ \E i \in DOMAIN s, j \in DOMAIN s :
         /\ s[i] = "@"
         /\ i > 1
         /\ s[j] = "."
         /\ j > i + 1
         /\ j < Len(s)

\* the addresses of the call recorded in u, in the order de, para, cco
EnderecosDe(u) == {u.args.de, u.args.para, u.args.cco}

\* C9: enviar_email with a structurally malformed address in de, para or cco
\* raises a validation error naming a malformed address it was given, and no
\* remote operation is invoked during the call.
C9_malformed_email_rejected ==
    (/\ ultima.name = "enviar_email"
     /\ \E e \in EnderecosDe(ultima) : MalFormado(e)) =>
        /\ ultima.out.kind = "raise"
        /\ ultima.out.exc.type = "ValueError"
        /\ \E e \in EnderecosDe(ultima) :
              /\ MalFormado(e)
              /\ ultima.out.exc.msg = <<"Email inválido: ", e>>
        /\ Invocacoes(ultima.trace) = {}

\* de = "not-an-email" with documents to attach: rejected, nothing invoked
C9_witness ==
    /\ ultima.name = "enviar_email"
    /\ ultima.args.de = <<"n", "o", "t", "-", "a", "n", "-", "e", "m", "a", "i", "l">>
    /\ ultima.args.documentos # <<>>
    /\ ultima.out.kind = "raise"
    /\ ultima.trace = <<>>

----------------------------------------------------------------------------
(* C10: enumerated inputs *)

----------------------------------------------------------------------------
(* C11: listar_unidades called twice *)

\* the positions in a trace where operation op is invoked
InvocacoesDe(trace, op) == {i \in Invocacoes(trace) : trace[i].op = op}

\* the flow of two listar_unidades() calls ran to its end
DuasListagens ==
    /\ ultima.name = "listar_unidades; listar_unidades"
    /\ ultima.out.kind = "return"

\* C11 as stated: two listar_unidades() calls on one client hit listarUnidades
\* once in total and both return the client's cached unit mapping.
C11_second_call_cached ==
    DuasListagens =>
        /\ Cardinality(InvocacoesDe(ultima.trace, "listarUnidades")) <= 1
        /\ ultima.out.val.val[1] = PyDict(cache["unidades"].map)
        /\ ultima.out.val.val[2] = PyDict(cache["unidades"].map)

\* C11 amended: listar_unidades() is not cached. Two calls on one client
\* invoke listarUnidades twice, once per call, and each returns the list its
\* own invocation received (equal lists when the transport returns a fixed
\* list); the stored unit mapping is neither returned nor changed.
C11_each_call_invokes ==
    DuasListagens =>
        LET is == InvocacoesDe(ultima.trace, "listarUnidades")
        IN  /\ Cardinality(is) = 2
            /\ \A i \in is : ultima.trace[i].out.kind = "return"
            /\ ultima.out.val.val[1] = ultima.trace[CHOOSE i \in is : \A j \in is : i <= j].out.val
            /\ ultima.out.val.val[2] = ultima.trace[Maximo(is)].out.val
            /\ ultima.out.val.val[1] = ultima.out.val.val[2]
            /\ ultima.out.val.val[1].kind = "list"

\* both calls returned after the client's unit table was populated
C11_witness ==
    /\ DuasListagens
    /\ cache["unidades"].set
    /\ Cardinality(InvocacoesDe(ultima.trace, "listarUnidades")) = 2

----------------------------------------------------------------------------
(* C12: what the wrappers return *)

\* the public wrapper methods of SeiClient
MetodosPublicos ==
    {w.nome : w \in MutacoesSimples} \cup {w.nome : w \in ConsultasSimples}
    \cup {"atribuir_processo", "consultar_bloco", "consultar_documento",
          "consultar_procedimento", "enviar_email", "enviar_processo", "gerar_bloco",
          "gerar_procedimento", "lancar_andamento", "listar_andamentos",
          "listar_hipoteses_legais", "listar_contatos", "listar_estados",
          "listar_extensoes_permitidas", "listar_series", "listar_tipos_procedimento",
          "listar_unidades"}

\* value v is the raw result itself or its coercion  raw == "1"
DevolveResultado(v, raw) ==
    \/ v.kind = raw.kind /\ v = raw
    \/ v = [kind |-> "bool",
            val |-> IF raw.kind = "str" /\ raw.val = "1" THEN "True" ELSE "False"]

\* C12: a public wrapper whose remote operation returned gives its caller
\* that operation's result unmodified or its boolean coercion; in particular
\* consultar_bloco, gerar_bloco and listar_contatos return what the remote
\* call returned.
C12_result_passed_back ==
    (/\ ultima.name \in MetodosPublicos
     /\ ultima.out.kind = "return"
     /\ Invocacoes(ultima.trace) # {}) =>
        DevolveResultado(ultima.out.val,
                         ultima.trace[UltimaInvocacao(ultima.trace)].out.val)

----------------------------------------------------------------------------
(* C13: construction resolves the unit *)

\* C13: the constructor makes exactly one remote call, listarUnidades. When
\* that call returns and the acronym is absent from the response,
\* construction fails with "Unidade inválida: <acronym>" and no client object
\* exists; when the acronym is present, construction succeeds with id_unidade
\* bound to the IdUnidade of its record. A client that exists always has its
\* unit resolved.
C13_construction_resolves_unit ==
    /\ ultima.name = "SeiClient" =>
          /\ Cardinality(Invocacoes(ultima.trace)) = 1
          /\ \A i \in Invocacoes(ultima.trace) :
                /\ ultima.trace[i].op = "listarUnidades"
                /\ ultima.trace[i].out.kind = "return" =>
                      LET m == DictPor("Sigla", ultima.trace[i].out.val.val)
                          su == ultima.args.sigla_unidade
                      IN  IF su \notin DOMAIN m
                            THEN /\ ultima.out = Raise(Exc("ValueError",
                                                      <<"Unidade inválida: ", su>>))
                                 /\ ~pronto
                            ELSE /\ ultima.out.kind = "return"
                                 /\ pronto
                                 /\ sigla_unidade = su
                                 /\ id_unidade = m[su]["IdUnidade"]
    /\ pronto =>
          /\ cache["unidades"].set
          /\ sigla_unidade \in DOMAIN cache["unidades"].map
          /\ id_unidade = cache["unidades"].map[sigla_unidade]["IdUnidade"]

\* construction with an acronym the unit listing does not hold
C13_witness ==
    /\ ultima.name = "SeiClient"
    /\ ultima.args.sigla_unidade = ChaveAusente
    /\ ultima.out = Raise(Exc("ValueError", <<"Unidade inválida: ", ChaveAusente>>))
    /\ ~pronto

----------------------------------------------------------------------------
(* C14: enviar_processo sends one request *)

\* C14: enviar_processo issues at most one enviarProcesso request; when a
\* destination acronym is not in the unit table it issues none; when the
\* flags are valid and every destination is listed it issues exactly one,
\* whose UnidadesDestino is the list of the destinations' unit IDs in the
\* order given.
C14_single_request ==
    ultima.name = "enviar_processo" =>
        LET is == InvocacoesDe(ultima.trace, "enviarProcesso")
            ud == ultima.args.unidades_destino
            m  == cache["unidades"].map
        IN  /\ Cardinality(is) <= 1
            /\ (\E i \in DOMAIN ud : ud[i] \notin DOMAIN m) => is = {}
            /\ (~SinalizadorInvalido(ultima) /\ \A i \in DOMAIN ud : ud[i] \in DOMAIN m) =>
                  /\ Cardinality(is) = 1
                  /\ \A k \in is :
                        ultima.trace[k].args.UnidadesDestino =
                            [i \in DOMAIN ud |-> m[ud[i]]["IdUnidade"]]

\* two destinations sent in one request that returned
C14_witness ==
    /\ ultima.name = "enviar_processo"
    /\ Len(ultima.args.unidades_destino) = 2
    /\ ultima.out.kind = "return"
    /\ \E k \in InvocacoesDe(ultima.trace, "enviarProcesso") :
          Len(ultima.trace[k].args.UnidadesDestino) = 2

----------------------------------------------------------------------------
(* C15: the filters of listar_unidades *)

\* C15: whatever the filters id_tipo_procedimento and tipo_de_documento
\* (empty, a known name, an unknown string), listar_unidades on a transport
\* that does not fail invokes listarUnidades and returns its response
\* unmodified.
C15_filters_pass_through ==
    (/\ ultima.name = "listar_unidades"
     /\ \A i \in Invocacoes(ultima.trace) : ultima.trace[i].out.kind = "return") =>
        /\ ultima.out.kind = "return"
        /\ \E i \in InvocacoesDe(ultima.trace, "listarUnidades") :
              /\ ultima.out.val.kind = ultima.trace[i].out.val.kind
              /\ ultima.out.val = ultima.trace[i].out.val

----------------------------------------------------------------------------
(* C16: the session fields after construction *)

\* C16: once the client is constructed, no step (wrapper call, direct use,
\* table population, successful or failed) changes sigla_sistema, chave_api,
\* sigla_unidade or id_unidade.
C16_session_fields_frozen ==
    [][pronto => UNCHANGED <<sigla_sistema, chave_api, sigla_unidade, id_unidade>>]_vars

\* listar_series was invoked for a unit other than the session's, and the
\* session still holds its own unit
C16_witness ==
    /\ ultima.name = "listar_series"
    /\ Truthy(ultima.args.sigla_unidade)
    /\ ultima.args.sigla_unidade # sigla_unidade
    /\ \E i \in InvocacoesDe(ultima.trace, "listarSeries") :
          /\ ultima.trace[i].args.IdUnidade # id_unidade
          /\ ultima.trace[i].args.IdUnidade # ""
    /\ sigla_unidade = "SFI"

----------------------------------------------------------------------------
(* C17: download_wsdl for a supported environment *)

\* C17: download_wsdl("homologação") and download_wsdl("produção") return the
\* path of the environment's own WSDL file (seihm.wsdl, sei.wsdl), resolved
\* from the local file when it exists and fetched once otherwise.
C17_supported_ambiente_returns_path ==
    (/\ ultima.name = "download_wsdl"
     /\ ultima.args.ambiente \in {"homologação", "produção"}) =>
        /\ ultima.out.kind = "return"
        /\ ultima.out.val.kind = "str"
        /\ ultima.out.val.val =
              (IF ultima.args.ambiente = "homologação" THEN "seihm.wsdl" ELSE "sei.wsdl")

----------------------------------------------------------------------------
(* C18: the identification fields under a direct _chamar_servico call *)

CamposDeIdentificacao == {"SiglaSistema", "IdentificacaoServico"}

\* C18: a direct _chamar_servico call whose keyword arguments hold SiglaSistema
\* or IdentificacaoServico raises without invoking the transport, and any
\* invocation a direct call does make carries the session's system identifier
\* and access key.
C18_identification_not_overridable ==
    ultima.name = "_chamar_servico" =>
        /\ \A i \in Invocacoes(ultima.trace) :
              /\ ultima.trace[i].args.SiglaSistema = sigla_sistema
              /\ ultima.trace[i].args.IdentificacaoServico = chave_api
              /\ DOMAIN ultima.args.kwargs \cap CamposDeIdentificacao = {}
        /\ (DOMAIN ultima.args.kwargs \cap CamposDeIdentificacao # {}) =>
              /\ Invocacoes(ultima.trace) = {}
              /\ ultima.out.kind = "raise"

\* an existing operation was called directly with another system identifier
\* and the call raised TypeError before the transport
C18_witness ==
    /\ ultima.name = "_chamar_servico"
    /\ ultima.args.nome_operacao = "listarCargos"
    /\ "SiglaSistema" \in DOMAIN ultima.args.kwargs
    /\ ultima.args.kwargs.SiglaSistema # sigla_sistema
    /\ ultima.out.kind = "raise"
    /\ ultima.out.exc.type = "TypeError"
    /\ Invocacoes(ultima.trace) = {}

----------------------------------------------------------------------------
(* C19: the request and response records around an invocation *)

SiglaUnidadeDaSessao ==
    IF ultima.name \in {"SeiClient", "instanciar_cliente_sei"}
      THEN ultima.args.sigla_unidade
      ELSE sigla_unidade

\* trace[i] is the informational request record of operation op
RegistroDeChamada(trace, i, op) ==
    /\ i \in DOMAIN trace
    /\ trace[i].ev = "log"
    /\ trace[i].level = "INFO"
    /\ trace[i].fmt = LogChamando("", <<>>).fmt
    /\ trace[i].a1 = op

\* trace[i] is the informational response record of payload v
RegistroDeResposta(trace, i, v) ==
    /\ i \in DOMAIN trace
    /\ trace[i].ev = "log"
    /\ trace[i].level = "INFO"
    /\ trace[i].fmt = LogResposta(PyNone).fmt
    /\ trace[i].a1.kind = v.kind
    /\ trace[i].a1 = v

\* the records are in place around every invocation: the request record just
\* before it, the response record just after it when it returned
RegistrosEmOrdem ==
    \A i \in Invocacoes(ultima.trace) :
        /\ RegistroDeChamada(ultima.trace, i - 1, ultima.trace[i].op)
        /\ ultima.trace[i].out.kind = "return" =>
              RegistroDeResposta(ultima.trace, i + 1, ultima.trace[i].out.val)

\* C19 as stated: the request record precedes every invocation, the response
\* record follows every invocation that returned, and the request record holds
\* the same names and values the transport receives.
C19_request_record_is_what_is_sent ==
    /\ RegistrosEmOrdem
    /\ \A i \in Invocacoes(ultima.trace) :
          /\ DOMAIN ultima.trace[i - 1].a2 = DOMAIN ultima.trace[i].args
          /\ \A k \in DOMAIN ultima.trace[i].args :
                ultima.trace[i - 1].a2[k] = ultima.trace[i].args[k]

\* C19 (amended): the request record precedes every invocation, the response
\* record follows every invocation that returned; the request record holds
\* the names the transport receives except IdentificacaoServico, with the
\* values the transport receives, and in addition the session's SiglaUnidade,
\* which the transport does not receive.
C19_request_record_differs_in_two_names ==
    /\ RegistrosEmOrdem
    /\ \A i \in Invocacoes(ultima.trace) :
          LET a2 == ultima.trace[i - 1].a2
              args == ultima.trace[i].args
          IN  /\ DOMAIN a2 = (DOMAIN args \ {"IdentificacaoServico"}) \cup {"SiglaUnidade"}
              /\ "IdentificacaoServico" \in DOMAIN args
              /\ "SiglaUnidade" \notin DOMAIN args
              /\ a2.SiglaUnidade = SiglaUnidadeDaSessao
              /\ \A k \in DOMAIN args \ {"IdentificacaoServico"} : a2[k] = args[k]

\* a wrapper's invocation returned between its request and response records
C19_witness ==
    /\ ultima.name = "listar_series"
    /\ ultima.out.kind = "return"
    /\ Len(ultima.trace) >= 3
    /\ \E i \in InvocacoesDe(ultima.trace, "listarSeries") :
          /\ RegistroDeChamada(ultima.trace, i - 1, "listarSeries")
          /\ ultima.trace[i - 1].a2.SiglaUnidade = sigla_unidade
          /\ RegistroDeResposta(ultima.trace, i + 1, ultima.trace[i].out.val)

----------------------------------------------------------------------------
(* Two threads on one client: functools.cached_property.__get__ step by step *)

Fios == {"A", "B"}

\* the tables no call has populated once the constructor has returned
TabelasSemUso == Tabelas \ {"unidades"}

\* a thread that has not read table t yet.  n counts its finished reads and
\* out is how the last one ended; val is the mapping its listing built and has
\* not stored yet.  The remaining fields are history: how its first read
\* ended, the mappings its listings built, how many listings it invoked,
\* whether the read in progress (or the last one) began after every thread had
\* finished a read, and whether such a read invoked the listing.
FioInicial(t) ==
    [pc |-> "fora", t |-> t, n |-> 0, val |-> <<>>,
     out |-> [kind |-> "nenhum"], primeiro |-> "nenhum", feito |-> {},
     listagens |-> 0, tardio |-> FALSE, listouTardio |-> FALSE]

\* the client object as SeiClient("InovaFiscaliza", ..., "SFI") leaves it
ClienteConstruido ==
    LET m == DictPor(CampoChave("unidades"), Listagem("unidades", 0))
    IN  /\ pronto = TRUE
        /\ sigla_sistema \in SiglasSistema
        /\ chave_api \in ChavesApi
        /\ sigla_unidade = "SFI"
        /\ id_unidade = m["SFI"][CampoId("unidades")]
        /\ cache = [CacheInicial EXCEPT !["unidades"] = [set |-> TRUE, map |-> m]]
        /\ remoto = 0
        /\ ultima = Nenhuma

\* cadeado: functools.cached_property holds a lock in Python 3.8 to 3.11 and
\* none from 3.12 on; the library does not say which interpreter runs it
InitFios ==
    /\ ClienteConstruido
    /\ \E t \in TabelasSemUso : fios = [f \in Fios |-> FioInicial(t)]
    /\ cadeado \in {"ausente", "livre"}

\* the read of thread f ends with outcome out
Concluir(f, out) ==
    [fios EXCEPT ![f] = [@ EXCEPT !.pc = "fora", !.n = @ + 1, !.val = <<>>, !.out = out,
                                  !.primeiro = IF fios[f].n = 0 THEN out.kind ELSE @]]

\* val = cache.get(self.attrname, _NOT_FOUND): a hit returns the stored
\* mapping, a miss goes on to the lock or, without one, to the listing
Acessar ==
    \E f \in Fios :
        /\ fios[f].pc = "fora"
        /\ fios[f].n < MaxAcessos
        /\ LET tarde == \A g \in Fios : fios[g].n >= 1
               ini == [fios EXCEPT ![f].tardio = tarde]
           IN  fios' = IF cache[fios[f].t].set
                         THEN [Concluir(f, Ret(PyDict(cache[fios[f].t].map)))
                                  EXCEPT ![f].tardio = tarde]
                         ELSE [ini EXCEPT ![f].pc = IF cadeado = "ausente"
                                                      THEN "listar" ELSE "esperar"]
        /\ UNCHANGED <<pronto, sigla_sistema, chave_api, sigla_unidade, id_unidade,
                       cache, remoto, ultima, cadeado>>

\* with self.lock: val = cache.get(self.attrname, _NOT_FOUND) once more
Adquirir ==
    \E f \in Fios :
        /\ fios[f].pc = "esperar"
        /\ cadeado = "livre"
        /\ IF cache[fios[f].t].set
             THEN /\ fios' = Concluir(f, Ret(PyDict(cache[fios[f].t].map)))
                  /\ UNCHANGED cadeado
             ELSE /\ fios' = [fios EXCEPT ![f].pc = "listar"]
                  /\ cadeado' = f
        /\ UNCHANGED <<pronto, sigla_sistema, chave_api, sigla_unidade, id_unidade,
                       cache, remoto, ultima>>

\* val = self.func(instance): the listing call and the dict comprehension over
\* its response; an exception leaves __get__ (and the lock) with nothing stored
Listar ==
    \E f \in Fios :
        /\ fios[f].pc = "listar"
        /\ \E o \in OraculosDeListagem(fios[f].t, remoto) :
             LET t == fios[f].t
                 r == ChamarServico(Self, OperacaoDeListagem(t), KwargsDeListagem(Self, t), o)
                 contado == [fios EXCEPT ![f].listagens = @ + 1,
                                         ![f].listouTardio = @ \/ fios[f].tardio]
             IN  IF r.out.kind = "raise"
                   THEN /\ fios' = [Concluir(f, r.out) EXCEPT
                                       ![f].listagens = contado[f].listagens,
                                       ![f].listouTardio = contado[f].listouTardio]
                        /\ cadeado' = IF cadeado = f THEN "livre" ELSE cadeado
                   ELSE LET m == DictPor(CampoChave(t), r.out.val.val)
                        IN  /\ fios' = [contado EXCEPT
                                           ![f].pc = "guardar", ![f].val = m,
                                           ![f].feito = @ \cup {m}]
                            /\ UNCHANGED cadeado
        /\ UNCHANGED <<pronto, sigla_sistema, chave_api, sigla_unidade, id_unidade,
                       cache, remoto, ultima>>

\* a variant of the store that hands the mapping back and stores nothing
Guardar_nada ==
    \E f \in Fios :
        /\ fios[f].pc = "guardar"
        /\ fios' = Concluir(f, Ret(PyDict(fios[f].val)))
        /\ cadeado' = IF cadeado = f THEN "livre" ELSE cadeado
        /\ UNCHANGED <<pronto, sigla_sistema, chave_api, sigla_unidade, id_unidade,
                       cache, remoto, ultima>>

\* cache[self.attrname] = val; return val (leaving the lock, if any)
Guardar ==
    \E f \in Fios :
        /\ fios[f].pc = "guardar"
        /\ cache' = [cache EXCEPT ![fios[f].t] = [set |-> TRUE, map |-> fios[f].val]]
        /\ fios' = Concluir(f, Ret(PyDict(fios[f].val)))
        /\ cadeado' = IF cadeado = f THEN "livre" ELSE cadeado
        /\ UNCHANGED <<pronto, sigla_sistema, chave_api, sigla_unidade, id_unidade,
                       remoto, ultima>>

NextFios ==
    \/ Acessar
    \/ Adquirir
    \/ Listar
    \/ Guardar
    \/ MudarRemoto

SpecFios == InitFios /\ [][NextFios]_vars

----------------------------------------------------------------------------
(* C20: two threads and a table that is not populated yet *)

\* the table the two threads read
TabelaDosFios == fios[CHOOSE f \in Fios : TRUE].t

\* every thread has finished its first read
Terminados == \A f \in Fios : fios[f].n >= 1

\* the first read of some thread returned
AlgumaVoltou == \E f \in Fios : fios[f].primeiro = "return"

\* the mappings the listings of the two threads built
MapasFeitos == UNION {fios[f].feito : f \in Fios}

\* the whole mappings of table t: one per version of the remote data
MapasCompletos(t) == {DictPor(CampoChave(t), Listagem(t, e)) : e \in 0..MaxEpoca}

\* a thread is only ever handed a whole mapping, and only a whole mapping is
\* ever stored
SoMapasCompletos ==
    /\ \A f \in Fios :
          fios[f].out.kind = "return" =>
              fios[f].out.val.val \in MapasCompletos(TabelaDosFios)
    /\ cache[TabelaDosFios].set => cache[TabelaDosFios].map \in MapasCompletos(TabelaDosFios)

\* C20 as stated: no thread observes a partial mapping; once both threads have
\* finished, the table holds the mapping one of them built, and no later read
\* invokes the listing.
C20_settled_after_both_finish ==
    /\ SoMapasCompletos
    /\ Terminados =>
          /\ cache[TabelaDosFios].set
          /\ cache[TabelaDosFios].map \in MapasFeitos
    /\ \A f \in Fios : ~fios[f].listouTardio

\* C20 (amended): no thread observes a partial mapping; once both threads have
\* finished and the listing of at least one of them returned, the table holds
\* the mapping one of them built and no later read invokes the listing; where
\* cached_property holds its lock, at most one of the two threads builds a
\* mapping.
C20_settled_if_a_listing_returned ==
    /\ SoMapasCompletos
    /\ (Terminados /\ AlgumaVoltou) =>
          /\ cache[TabelaDosFios].set
          /\ cache[TabelaDosFios].map \in MapasFeitos
    /\ AlgumaVoltou => \A f \in Fios : ~fios[f].listouTardio
    /\ cadeado # "ausente" => Cardinality({f \in Fios : fios[f].feito # {}}) <= 1

\* both first reads invoked the listing and built different mappings, the
\* table holds one of them, and a read made after both had finished returned
\* without a third listing
C20_witness ==
    /\ cadeado = "ausente"
    /\ \A f \in Fios : fios[f].listagens = 1 /\ fios[f].primeiro = "return"
    /\ Cardinality(MapasFeitos) = 2
    /\ cache[TabelaDosFios].set
    /\ cache[TabelaDosFios].map \in MapasFeitos
    /\ \E f \in Fios : fios[f].n = 2 /\ fios[f].tardio /\ fios[f].pc = "fora"

----------------------------------------------------------------------------
(* C21: records with the same key in one listing *)

\* record i is the last one of its key in lista
UltimoDaChave(lista, campo, i) ==
    \A j \in DOMAIN lista : lista[j][campo] = lista[i][campo] => j <= i

\* the listing lista has two records with one key
TemChaveRepetida(lista, campo) ==
    \E i, j \in DOMAIN lista : i < j /\ lista[i][campo] = lista[j][campo]

\* the call recorded in ultima populated table t: an access, a resolution or,
\* for the unit table, the constructor that returned a client
Povoou(t) ==
    \/ Acesso(ultima, t)
    \/ t = "unidades" /\ ultima.name = "SeiClient" /\ ultima.out.kind = "return"

\* the key the call recorded in ultima resolved through table t
ChaveResolvida(t) ==
    IF ultima.name = "SeiClient" THEN ultima.args.sigla_unidade ELSE ultima.args.chave

\* C21: when a listing that populates a table returns, the table holds one
\* entry per key of the listing, each the last record of its key in listing
\* order, and a resolution of a listed key gives the ID of that last record
\* (the constructor stores it as id_unidade) and raises nothing.
C21_last_record_of_a_key_wins ==
    \A t \in Tabelas :
        \A i \in InvocacoesDe(ultima.trace, OperacaoDeListagem(t)) :
            (Povoou(t) /\ ultima.trace[i].out.kind = "return") =>
                LET lista == ultima.trace[i].out.val.val
                    campo == CampoChave(t)
                IN  /\ cache[t].set
                    /\ DOMAIN cache[t].map = {lista[j][campo] : j \in DOMAIN lista}
                    /\ \A j \in DOMAIN lista :
                          UltimoDaChave(lista, campo, j) =>
                            /\ cache[t].map[lista[j][campo]] = lista[j]
                            /\ (ultima.name # t /\ ChaveResolvida(t) = lista[j][campo]) =>
                                  /\ ultima.out.kind = "return"
                                  /\ IF ultima.name = "SeiClient"
                                       THEN id_unidade = lista[j][CampoId(t)]
                                       ELSE ultima.out.val = PyStr(lista[j][CampoId(t)])

\* a login listed twice was resolved to the ID of its later record
C21_witness ==
    /\ ultima.name = "_validar_usuario"
    /\ ultima.out.kind = "return"
    /\ \E i \in InvocacoesDe(ultima.trace, "listarUsuarios") :
          /\ ultima.trace[i].out.kind = "return"
          /\ TemChaveRepetida(ultima.trace[i].out.val.val, "Sigla")
          /\ \E a, b \in DOMAIN ultima.trace[i].out.val.val :
                /\ a < b
                /\ ultima.trace[i].out.val.val[a]["Sigla"] = ultima.args.chave
                /\ ultima.trace[i].out.val.val[b]["Sigla"] = ultima.args.chave
                /\ ultima.trace[i].out.val.val[a]["IdUsuario"] # ultima.out.val.val
                /\ ultima.trace[i].out.val.val[b]["IdUsuario"] = ultima.out.val.val

----------------------------------------------------------------------------
(* C22: what the error of an invalid flag says *)

\* the call recorded in ultima ended with the error of an invalid flag
ErroDeSinalizador ==
    /\ ultima.name \in MetodosComSinalizador
    /\ ultima.out.kind = "raise"
    /\ ultima.out.exc.type \in {"ValueError", "AssertionError"}
    /\ Len(ultima.out.exc.msg) >= 2
    /\ ultima.out.exc.msg[1] = "Valor inválido para "

\* the message msg holds the text x
Menciona(msg, x) == \E i \in DOMAIN msg : msg[i] = x

\* the wrappers that validate through _validar_booleano
MetodosComValidarBooleano == {"atribuir_processo", "gerar_bloco", "listar_andamentos"}

\* the wrappers that validate with an inline assert
MetodosComAssert == {"consultar_documento", "consultar_procedimento", "enviar_processo"}

\* C22 as stated: the error of an invalid flag names an offending field and
\* gives the value that was supplied for it.
C22_error_names_field_and_value ==
    ErroDeSinalizador =>
        \E f \in DOMAIN ultima.args.flags :
            /\ ultima.args.flags[f] \notin {"S", "N"}
            /\ Menciona(ultima.out.exc.msg, f)
            /\ Menciona(ultima.out.exc.msg, ultima.args.flags[f])

\* C22 (amended): the error of an invalid flag names an offending field.  The
\* AssertionError of the inline checks (consultar_documento,
\* consultar_procedimento, enviar_processo) also gives the supplied value; the
\* ValueError of _validar_booleano (atribuir_processo, gerar_bloco,
\* listar_andamentos) gives the permitted values and not the supplied one.
C22_error_names_field ==
    ErroDeSinalizador =>
        \E f \in DOMAIN ultima.args.flags :
            /\ ultima.args.flags[f] \notin {"S", "N"}
            /\ Menciona(ultima.out.exc.msg, f)
            /\ IF ultima.out.exc.type = "AssertionError"
                 THEN /\ ultima.name \in MetodosComAssert
                      /\ Menciona(ultima.out.exc.msg, ultima.args.flags[f])
                 ELSE /\ ultima.name \in MetodosComValidarBooleano
                      /\ ~Menciona(ultima.out.exc.msg, ultima.args.flags[f])
                      /\ Menciona(ultima.out.exc.msg,
                                  ". Valores possíveis: S - Sim, N - Não")

\* _validar_booleano rejected sin_disponibilizar = "X" in gerar_bloco
C22_witness ==
    /\ ultima.name = "gerar_bloco"
    /\ ultima.args.flags.sin_disponibilizar = "X"
    /\ ErroDeSinalizador
    /\ ultima.out.exc.type = "ValueError"
    /\ Menciona(ultima.out.exc.msg, "sin_disponibilizar")
    /\ ~Menciona(ultima.out.exc.msg, "X")

----------------------------------------------------------------------------
(* C23: the call after a local validation error *)

\* the call recorded in u ended with an error raised by a local check
FalhaLocal(u) ==
    /\ u.name # ""
    /\ u.out.kind = "raise"
    /\ u.out.exc.type \in {"ValueError", "AssertionError"}

\* what the transport received for operation op in the run r of a wrapper
Despachos(r, op) == {r.trace[i].args : i \in InvocacoesDe(r.trace, op)}

\* the failed call recorded in u invoked nothing but the listings that
\* populate the tables it resolved through
SoListagensDePovoamento(u) ==
    \A i \in Invocacoes(u.trace) :
        /\ u.trace[i].op \in OperacoesDeListagem
        /\ TabelaDaOperacao(u.trace[i].op) \in u.pop

\* atribuir_processo called again with a known login and a valid flag, on the
\* tables c, when the listing of users would behave as o1 (and the remote
\* atribuirProcesso answers "1")
NovaTentativa(c, su, f, o1) ==
    atribuir_processo(Self, c,
                      [protocolo_procedimento |-> Valor("ProtocoloProcedimento"),
                       sigla_usuario |-> su, flags |-> [sin_reabrir |-> f]],
                      o1, Ret(PyStr("1")))

\* C23 as stated, on atribuir_processo: a call that fails with a local
\* validation error dispatches no atribuirProcesso, and the same wrapper
\* called again with corrected input dispatches atribuirProcesso exactly as it
\* would have on the client as it was before the failed call, whatever the
\* remote service then does.
C23_retry_as_if_never_failed ==
    [][(pronto /\ ultima'.name = "atribuir_processo" /\ FalhaLocal(ultima')) =>
        /\ InvocacoesDe(ultima'.trace, "atribuirProcesso") = {}
        /\ \A su \in {"rsilva", "eric"}, f \in {"S", "N"}, e \in remoto..MaxEpoca :
             \A o1 \in OraculosDeListagem("usuarios", e) :
                Despachos(NovaTentativa(cache', su, f, o1), "atribuirProcesso")
                  = Despachos(NovaTentativa(cache, su, f, o1), "atribuirProcesso")]_vars

\* C23 (amended): a call that fails with a local validation error has invoked
\* nothing but the listing of a table it resolved through, leaves the session
\* fields as they were and changes no table except by populating one that was
\* empty.  atribuir_processo called again with corrected input then dispatches
\* atribuirProcesso as it would have without the failed call whenever the
\* failed call populated nothing or the listing of users, made now, would
\* return what the failed call stored; it resolves the login from the stored
\* table and makes no listing call.
C23_retry_uses_what_the_failed_call_stored ==
    [][(pronto /\ FalhaLocal(ultima')) =>
        /\ SoListagensDePovoamento(ultima')
        /\ UNCHANGED <<sigla_sistema, chave_api, sigla_unidade, id_unidade>>
        /\ \A t \in Tabelas :
              cache'[t] # cache[t] => (t \in ultima'.pop /\ ~cache[t].set /\ cache'[t].set)
        /\ ultima'.name = "atribuir_processo" =>
              \A su \in {"rsilva", "eric"}, f \in {"S", "N"}, e \in remoto..MaxEpoca :
                \A o1 \in OraculosDeListagem("usuarios", e) :
                   LET com == NovaTentativa(cache', su, f, o1)
                       sem == NovaTentativa(cache, su, f, o1)
                       igual == \/ cache'["usuarios"] = cache["usuarios"]
                                \/ /\ o1.kind = "return"
                                   /\ DictPor("Sigla", o1.val.val) = cache'["usuarios"].map
                   IN  /\ igual => Despachos(com, "atribuirProcesso")
                                     = Despachos(sem, "atribuirProcesso")
                       /\ cache'["usuarios"].set =>
                             /\ InvocacoesDe(com.trace, "listarUsuarios") = {}
                             /\ Cardinality(InvocacoesDe(com.trace, "atribuirProcesso")) = 1]_vars

\* atribuir_processo rejected sin_reabrir after it had listed the users and
\* stored them
C23_witness ==
    /\ ultima.name = "atribuir_processo"
    /\ FalhaLocal(ultima)
    /\ ultima.args.sigla_usuario \in {"rsilva", "eric"}
    /\ ultima.args.flags.sin_reabrir = "X"
    /\ ultima.pop = {"usuarios"}
    /\ cache["usuarios"].set
    /\ InvocacoesDe(ultima.trace, "atribuirProcesso") = {}

----------------------------------------------------------------------------
(* C24: the tables are independent *)

\* C24: the first access of a table (or the first resolution through it)
\* makes exactly one remote call, the table's own listing operation, and
\* neither populates nor changes another table; the constructor does the same
\* for the unit table; and no call changes a table it did not populate through
\* that table's own listing.
C24_tables_independent ==
    [][/\ (pronto /\ pronto') =>
            \A t \in Tabelas :
               /\ (Acesso(ultima', t) /\ ~cache[t].set) =>
                     /\ Cardinality(Invocacoes(ultima'.trace)) = 1
                     /\ \A i \in Invocacoes(ultima'.trace) :
                           ultima'.trace[i].op = OperacaoDeListagem(t)
                     /\ ultima'.pop = {t}
                     /\ \A t2 \in Tabelas \ {t} : cache'[t2] = cache[t2]
               /\ cache'[t] # cache[t] =>
                     /\ t \in ultima'.pop
                     /\ Cardinality(InvocacoesDe(ultima'.trace, OperacaoDeListagem(t))) = 1
       /\ (~pronto /\ pronto') =>
            /\ Cardinality(Invocacoes(ultima'.trace)) = 1
            /\ \A i \in Invocacoes(ultima'.trace) : ultima'.trace[i].op = "listarUnidades"
            /\ ultima'.pop = {"unidades"}
            /\ \A t2 \in Tabelas \ {"unidades"} : cache'[t2] = Vazio]_vars

\* the countries were listed by one listarPaises call while the users stayed
\* stored and the document series stayed unlisted
C24_witness ==
    /\ ultima.name = "paises"
    /\ ultima.pop = {"paises"}
    /\ Cardinality(Invocacoes(ultima.trace)) = 1
    /\ cache["paises"].set
    /\ cache["usuarios"].set
    /\ cache["unidades"].set
    /\ ~cache["documentos"].set

----------------------------------------------------------------------------
(* C25: optional filters *)

\* the wrappers with an optional filter: the argument, the operation, the
\* field the filter is sent as, and the table it is resolved through, if any
Filtro(nome) ==
    CASE nome = "listar_estados" ->
            [arg |-> "sigla_pais", op |-> "listarEstados", campo |-> "IdPais",
             tabela |-> "paises"]
      [] nome = "listar_series" ->
            [arg |-> "sigla_unidade", op |-> "listarSeries", campo |-> "IdUnidade",
             tabela |-> "unidades"]
      [] nome = "listar_unidades" ->
            [arg |-> "tipo_de_documento", op |-> "listarUnidades", campo |-> "IdSerie",
             tabela |-> "documentos"]
      [] nome = "listar_hipoteses_legais" ->
            [arg |-> "nivel_acesso", op |-> "listarHipotesesLegais",
             campo |-> "NivelAcesso", tabela |-> ""]
      [] nome = "listar_extensoes_permitidas" ->
            [arg |-> "id_arquivo_extensao", op |-> "listarExtensoesPermitidas",
             campo |-> "IdArquivoExtensao", tabela |-> ""]

MetodosComFiltro ==
    {"listar_estados", "listar_series", "listar_unidades", "listar_hipoteses_legais",
     "listar_extensoes_permitidas"}

\* the values a filter accepts besides the empty string
FiltrosValidos(f) ==
    CASE f.tabela # "" -> Elementos(Chaves(f.tabela))
      [] f.arg = "nivel_acesso" -> {"1", "2"}
      [] OTHER -> EXTENSOES

\* C25: an empty filter makes its wrapper dispatch its operation once with the
\* empty string in the filter's field, with no table populated, no listing
\* made and no local failure; a valid filter is dispatched as given or, where
\* the filter is a key of a table, as the ID the table holds for it.
C25_empty_filter_no_lookup ==
    ultima.name \in MetodosComFiltro =>
        LET f == Filtro(ultima.name)
            v == ultima.args[f.arg]
            is == InvocacoesDe(ultima.trace, f.op)
        IN  /\ v = "" =>
                  /\ ultima.pop = {}
                  /\ Cardinality(Invocacoes(ultima.trace)) = 1
                  /\ Cardinality(is) = 1
                  /\ \A i \in is :
                        /\ ultima.trace[i].args[f.campo] = ""
                        /\ ultima.out.kind = ultima.trace[i].out.kind
            /\ (v \in FiltrosValidos(f)
                /\ \A i \in Invocacoes(ultima.trace) : ultima.trace[i].out.kind = "return") =>
                  /\ Cardinality(is) = 1
                  /\ ultima.out.kind = "return"
                  /\ \A i \in is :
                        ultima.trace[i].args[f.campo] =
                            IF f.tabela = "" THEN v
                            ELSE cache[f.tabela].map[v][CampoId(f.tabela)]

\* listar_estados() dispatched with an empty IdPais while the countries had
\* never been listed
C25_witness ==
    /\ ultima.name = "listar_estados"
    /\ ultima.args.sigla_pais = ""
    /\ ~cache["paises"].set
    /\ ultima.out.kind = "return"
    /\ \E i \in InvocacoesDe(ultima.trace, "listarEstados") :
          ultima.trace[i].args.IdPais = ""

----------------------------------------------------------------------------
(* C26: the unit every request is made for *)

\* the wrappers that take the unit of their request from an argument, or send
\* none
MetodosSemUnidadeDaSessao ==
    {"listar_unidades", "listar_series", "listar_tipos_procedimento"}

----------------------------------------------------------------------------
(* C27: resolve, validate, dispatch in atribuir_processo *)

\* C27: atribuir_processo resolves the login, then validates sin_reabrir, then
\* dispatches.  Unless the listing of users itself fails, an unknown login
\* ends the call with the invalid-user error whatever sin_reabrir is, a known
\* login with an invalid flag ends it with the flag error, both with no
\* atribuirProcesso call; otherwise atribuirProcesso is the one call made
\* after the resolution and carries the resolved IdUsuario.
C27_resolve_validate_dispatch ==
    ultima.name = "atribuir_processo" =>
        LET login == ultima.args.sigla_usuario
            flag == ultima.args.flags.sin_reabrir
            listagens == InvocacoesDe(ultima.trace, "listarUsuarios")
            despachos == InvocacoesDe(ultima.trace, "atribuirProcesso")
        IN  IF \E i \in listagens : ultima.trace[i].out.kind = "raise"
              THEN /\ despachos = {}
                   /\ ultima.out.kind = "raise"
                   /\ ultima.out.exc.type = "Fault"
            ELSE IF login \notin DOMAIN cache["usuarios"].map
              THEN /\ despachos = {}
                   /\ ultima.out = Raise(Exc("ValueError", <<"Usuário inválido: ", login>>))
            ELSE IF flag \notin {"S", "N"}
              THEN /\ despachos = {}
                   /\ ultima.out.kind = "raise"
                   /\ ultima.out.exc.type = "ValueError"
                   /\ ultima.out.exc.msg[1] = "Valor inválido para "
                   /\ ultima.out.exc.msg[2] = "sin_reabrir"
            ELSE /\ Cardinality(despachos) = 1
                 /\ \A i \in despachos :
                       /\ \A j \in listagens : j < i
                       /\ ultima.trace[i].args.IdUsuario =
                             cache["usuarios"].map[login]["IdUsuario"]
                       /\ ultima.trace[i].args.SinReabrir = flag

\* an unknown login and an invalid flag together: the invalid-user error,
\* raised after the users were listed
C27_witness ==
    /\ ultima.name = "atribuir_processo"
    /\ ultima.args.sigla_usuario = ChaveAusente
    /\ ultima.args.flags.sin_reabrir = "X"
    /\ InvocacoesDe(ultima.trace, "listarUsuarios") # {}
    /\ InvocacoesDe(ultima.trace, "atribuirProcesso") = {}
    /\ ultima.out = Raise(Exc("ValueError", <<"Usuário inválido: ", ChaveAusente>>))

----------------------------------------------------------------------------
(* C28: the documents of enviar_email *)

\* the j-th invocation of operation op in trace, in order
Enesima(trace, op, j) ==
    CHOOSE i \in InvocacoesDe(trace, op) :
        Cardinality({x \in InvocacoesDe(trace, op) : x <= i}) = j

\* C28: enviar_email with three well-formed addresses and k document numbers,
\* on a transport that answers, issues one consultarDocumento call per
\* document, the j-th with ProtocoloDocumento equal to the j-th number and
\* IdUnidade equal to the session's unit ID, and then one enviarEmail call
\* with an IdDocumentos list of k entries; with k = 0 only the enviarEmail
\* call.
C28_one_lookup_per_document ==
    (/\ ultima.name = "enviar_email"
     /\ \A e \in EnderecosDe(ultima) : ~MalFormado(e)
     /\ \A i \in Invocacoes(ultima.trace) : ultima.trace[i].out.kind = "return") =>
        LET k == Len(ultima.args.documentos)
            consultas == InvocacoesDe(ultima.trace, "consultarDocumento")
            envios == InvocacoesDe(ultima.trace, "enviarEmail")
        IN  /\ Cardinality(consultas) = k
            /\ Cardinality(envios) = 1
            /\ Cardinality(Invocacoes(ultima.trace)) = k + 1
            /\ \A e \in envios :
                  /\ \A c \in consultas : c < e
                  /\ Len(ultima.trace[e].args.IdDocumentos) = k
            /\ \A j \in 1..k :
                  LET c == Enesima(ultima.trace, "consultarDocumento", j)
                  IN  /\ ultima.trace[c].args.ProtocoloDocumento = ultima.args.documentos[j]
                      /\ ultima.trace[c].args.IdUnidade = id_unidade

----------------------------------------------------------------------------
(* C29: a population that fails *)

\* C29: when the listing made by an access of an empty table raises, the
\* caller gets that exception and the table stays empty; an access of an empty
\* table always makes a listing call, so the next one lists again; and a table
\* goes from empty to populated only in a call whose listing returned.
C29_failed_population_not_stored ==
    [][(pronto /\ pronto') =>
        \A t \in Tabelas :
            LET listagens == InvocacoesDe(ultima'.trace, OperacaoDeListagem(t))
            IN  /\ (Acesso(ultima', t) /\ ~cache[t].set) =>
                      /\ listagens # {}
                      /\ \A i \in listagens :
                            ultima'.trace[i].out.kind = "raise" =>
                                /\ ultima'.out.kind = "raise"
                                /\ ultima'.out.exc = ultima'.trace[i].out.exc
                                /\ ~cache'[t].set
                /\ (~cache[t].set /\ cache'[t].set) =>
                      \E i \in listagens : ultima'.trace[i].out.kind = "return"]_vars

\* the listing of document series faulted: the fault reached the caller and
\* the table is still empty
C29_witness ==
    /\ pronto
    /\ ultima.name = "documentos"
    /\ ultima.pop = {"documentos"}
    /\ ultima.out = Raise(Fault)
    /\ \E i \in InvocacoesDe(ultima.trace, "listarSeries") :
          ultima.trace[i].out.kind = "raise"
    /\ ~cache["documentos"].set

----------------------------------------------------------------------------
(* C30: the request record and the access key *)

\* access keys other than the one of the session
OutrasChaves == {"chave-pd", "chave-dv"}

\* the session that makes the call in ultima
SessaoDaChamada ==
    IF ultima.name \in {"SeiClient", "instanciar_cliente_sei"}
      THEN [sigla_sistema |-> ultima.args.sigla_sistema,
            chave_api |-> ultima.args.chave_api,
            sigla_unidade |-> ultima.args.sigla_unidade, id_unidade |-> ""]
      ELSE Self

\* what the caller of _chamar_servico passed, recovered from what was sent
ArgumentosDoChamador(args) ==
    [k \in DOMAIN args \ CamposDeIdentificacao |-> args[k]]

\* C30: the same _chamar_servico call made by a session that differs only in
\* the access key writes the same request record, both when the transport is
\* invoked and when the call fails before it; the two sessions send different
\* keys to the transport, each its own.
C30_request_record_independent_of_key ==
    \A k \in OutrasChaves :
        LET s1 == SessaoDaChamada
            s2 == [s1 EXCEPT !.chave_api = k]
        IN  /\ \A i \in Invocacoes(ultima.trace) :
                  LET op == ultima.trace[i].op
                      kw == ArgumentosDoChamador(ultima.trace[i].args)
                      o  == ultima.trace[i].out
                      r1 == ChamarServico(s1, op, kw, o)
                      r2 == ChamarServico(s2, op, kw, o)
                  IN  /\ r1.trace[1] = ultima.trace[i - 1]
                      /\ r1.trace[2] = ultima.trace[i]
                      /\ r2.trace[1] = ultima.trace[i - 1]
                      /\ r2.trace[2].args.IdentificacaoServico = k
                      /\ ultima.trace[i].args.IdentificacaoServico = s1.chave_api
                      /\ k # s1.chave_api
            /\ ultima.name = "_chamar_servico" =>
                  LET r2 == ChamarServico(s2, ultima.args.nome_operacao,
                                          ultima.args.kwargs, Ret(PyNone))
                  IN  /\ ultima.trace # <<>>
                      /\ r2.trace[1] = ultima.trace[1]

\* a direct call reached the transport with the session's key, and a session
\* with another key would have sent that other key
C30_witness ==
    /\ pronto
    /\ ultima.name = "_chamar_servico"
    /\ ultima.out.kind = "return"
    /\ \E i \in InvocacoesDe(ultima.trace, "listarCargos") :
          /\ ultima.trace[i].args.IdentificacaoServico = chave_api
          /\ RegistroDeChamada(ultima.trace, i - 1, "listarCargos")
          /\ \E k \in OutrasChaves :
                Enviado([Self EXCEPT !.chave_api = k],
                        ultima.args.kwargs).IdentificacaoServico # chave_api

====
